---- MODULE Spec2Model ----
(***************************************************************************)
(* A model of the training pipeline of pleural-vs-parenchymal:             *)
(*   src/src/train.py                  partitioning, training, search, CV  *)
(*   src/src/explainability/gradcam.py Grad-CAM heatmaps                   *)
(*                                                                         *)
(* Floating point values are kept bit by bit and rounded to nearest, ties   *)
(* to even, as IEEE 754 arithmetic does; zero divisors give the specials   *)
(* numpy produces (inf, -inf, nan).                                        *)
(* Fractions of the configuration (VAL_SPLIT, TEST_SPLIT) are given in    *)
(* tenths and enter the arithmetic as the floats their literals denote.    *)
(***************************************************************************)
EXTENDS Integers, Sequences, FiniteSets, TLC

\* ------------------------------------------------------------------ bounds
\* Largest number of patients of a frame table.
NPatients == 4
\* Largest cfg['HPARAM_SEARCH']['N_TRIALS'].
MaxTrials == 2
\* Largest cfg['TRAIN']['N_FOLDS'].
MaxFolds == 3
\* get_class_weights called on its own: classes and largest count of a histogram.
MaxClasses == 3
MaxCount == 3
\* Largest number of classes of a histogram of equal counts.
MaxEqualClasses == 49
\* Grad-CAM: rows of a frame table, cells of a heatmap, largest raw cell value.
MaxRows == 2
HeatCells == 2
MaxHeat == 3
\* Grad-CAM run as a script: file dialogs opened
MaxPrompts == 3
\* plot_confusion_matrix: examples per call
MaxExamples == 4
\* Preprocessor.prepare: elements of a dataset, largest cfg['TRAIN']['BATCH_SIZE']
MaxItems == 4
MaxBatch == 3
\* partition_dataset on its own: patients of the frame table
MaxPatients == 10
\* train_single called again and again: calls of one process
MaxCalls == 3

\* ----------------------------------------------------------------- helpers
Range(s) == {s[i] : i \in DOMAIN s}

\* F(v) for the value of v, which is computed once however often F uses it.
With(v, F(_)) == CHOOSE out \in {F(x) : x \in {v}} : TRUE

CeilDiv(a, b) == (a + b - 1) \div b

RECURSIVE SumSeq(_)
SumSeq(s) ==
    IF s = <<>> THEN 0
    ELSE IF Len(s) = 1 THEN s[1]
    ELSE LET mid == Len(s) \div 2
         IN SumSeq(SubSeq(s, 1, mid)) + SumSeq(SubSeq(s, mid + 1, Len(s)))

\* ------------------------------------------------------------ float values
\* A binary floating-point number of p significant bits: [k, m, e] is
\* +-M * 2^(e - p) for k = "pos" / "neg", where 2^(p-1) <= M < 2^p and m holds
\* the digits of M in base 2^16, most significant first.  Results are rounded
\* to nearest, ties to even.  Exponents stay far from the ends of the format,
\* and the sign of zero is not kept.
Zero == [k |-> "zero", m |-> <<>>, e |-> 0]
Inf == [k |-> "inf", m |-> <<>>, e |-> 0]
NegInf == [k |-> "ninf", m |-> <<>>, e |-> 0]
NaN == [k |-> "nan", m |-> <<>>, e |-> 0]

\* Significant bits of a Python float and of a numpy float64.
Double == 53

Base == 2^16
Zeros(n) == [i \in 1..n |-> 0]
Last(a) == a[Len(a)]

\* a without its leading zero digits.
Strip(a) ==
    IF \A i \in DOMAIN a : a[i] = 0 THEN <<>>
    ELSE LET first == CHOOSE i \in DOMAIN a : a[i] # 0 /\ \A j \in 1..(i - 1) : a[j] = 0
         IN SubSeq(a, first, Len(a))

\* The digits of the integer 0 <= i < 2^31, and the integer of up to two digits.
Digits(i) == Strip(<<i \div Base, i % Base>>)

DigitsInt(a) ==
    LET s == Strip(a)
    IN IF s = <<>> THEN 0 ELSE IF Len(s) = 1 THEN s[1] ELSE s[1] * Base + s[2]

\* The number of bits of a digit i, and of the digits a.
BitLen(i) == IF i = 0 THEN 0 ELSE CHOOSE n \in 1..16 : 2^(n - 1) <= i /\ i < 2^n

BitsOf(a) ==
    LET s == Strip(a) IN IF s = <<>> THEN 0 ELSE 16 * (Len(s) - 1) + BitLen(s[1])

\* The five digits of a * k + carry, for up to four digits a and
\* 0 <= k <= 2^15, 0 <= carry < 2^15: one digit after the other, from the last.
MulAdd(a, k, carry) ==
    LET d == Zeros(4 - Len(a)) \o a
        t4 == d[4] * k + carry
        t3 == d[3] * k + t4 \div Base
        t2 == d[2] * k + t3 \div Base
        t1 == d[1] * k + t2 \div Base
    IN <<t1 \div Base, t1 % Base, t2 % Base, t3 % Base, t4 % Base>>

\* Long division of up to five digits a by 0 < d <= 2^15: the five quotient
\* digits and the remainder, one digit after the other, from the first.
DivRem(a, d) ==
    LET u == Zeros(5 - Len(a)) \o a
        t1 == u[1]
        t2 == (t1 % d) * Base + u[2]
        t3 == (t2 % d) * Base + u[3]
        t4 == (t3 % d) * Base + u[4]
        t5 == (t4 % d) * Base + u[5]
    IN [q |-> <<t1 \div d, t2 \div d, t3 \div d, t4 \div d, t5 \div d>>, r |-> t5 % d]

\* The float of p bits nearest to (A + f) * 2^x, ties to even, where A is the
\* integer of the digits a and 0 <= f < 1 is non-zero exactly if sticky.  With
\* sticky, A has more than p bits.
RoundDigits(a, x, sticky, p) ==
    With(Strip(a), LAMBDA s :
      LET n == BitsOf(s)
      IN IF n = 0 THEN Zero
         ELSE IF n <= p
         THEN \* exact: A * 2^(p - n), shifted by whole digits and by bits
              [k |-> "pos",
               m |-> Strip(MulAdd(s, 2^((p - n) % 16), 0)) \o Zeros((p - n) \div 16),
               e |-> n + x]
         ELSE LET whole == (n - p) \div 16     \* digits dropped
                  c == (n - p) % 16            \* bits dropped of the digits kept
                  gone == SubSeq(s, Len(s) - whole + 1, Len(s))
              IN With(DivRem(SubSeq(s, 1, Len(s) - whole), 2^c), LAMBDA cut :
                 With(Strip(cut.q), LAMBDA kept :
                   LET half == IF c > 0 THEN cut.r \div 2^(c - 1) ELSE gone[1] \div 2^15
                       rest == \/ sticky
                               \/ IF c > 0 THEN cut.r % 2^(c - 1) # 0 \/ Strip(gone) # <<>>
                                  ELSE gone[1] % 2^15 # 0 \/ Strip(Tail(gone)) # <<>>
                       up == half = 1 /\ (rest \/ Last(kept) % 2 = 1)
                   IN With(Strip(MulAdd(kept, 1, IF up THEN 1 ELSE 0)), LAMBDA inc :
                        IF BitsOf(inc) > p
                        THEN [k |-> "pos", m |-> Strip(DivRem(inc, 2).q), e |-> n + x + 1]
                        ELSE [k |-> "pos", m |-> inc, e |-> n + x]))))

\* float(i) for an integer i.
FromInt(i, p) ==
    IF i = 0 THEN Zero
    ELSE IF i > 0 THEN RoundDigits(Digits(i), 0, FALSE, p)
    ELSE [RoundDigits(Digits(-i), 0, FALSE, p) EXCEPT !.k = "neg"]

\* The integer a whole-numbered float x >= 0 below 2^16 equals.
ToInt(x) ==
    IF x.k = "zero" THEN 0
    ELSE LET drop == BitsOf(x.m) - x.e
         IN DigitsInt(DivRem(SubSeq(x.m, 1, Len(x.m) - drop \div 16), 2^(drop % 16)).q)

\* x * i for a float x >= 0 and an integer 0 <= i <= 2^15, in p bits.
MulInt(x, i, p) ==
    CASE x.k = "pos" /\ i # 0 -> RoundDigits(MulAdd(x.m, i, 0), x.e - BitsOf(x.m), FALSE, p)
      [] x.k = "pos" /\ i = 0 -> Zero
      [] x.k = "inf" -> IF i = 0 THEN NaN ELSE Inf
      [] OTHER -> x

\* x / i for a numpy float x >= 0 and an integer 0 <= i <= 2^15, in p bits: a
\* zero divisor gives inf (nan for 0/0) and a RuntimeWarning, never an
\* exception.  One more digit of the dividend gives the quotient more than p
\* bits.
NpDivInt(x, i, p) ==
    CASE x.k = "pos" /\ i # 0 ->
            LET h == DivRem(Append(x.m, 0), i)
            IN RoundDigits(h.q, x.e - BitsOf(x.m) - 16, h.r # 0, p)
      [] x.k = "pos" /\ i = 0 -> Inf
      [] x.k = "zero" -> IF i = 0 THEN NaN ELSE Zero
      [] OTHER -> x

\* x <= y for floats x, y >= 0 of the same precision
DigitsLess(a, b) == \E i \in DOMAIN a : a[i] < b[i] /\ \A j \in 1..(i - 1) : a[j] = b[j]
FloatLeq(x, y) ==
    CASE x.k = "zero" \/ y.k = "inf" -> TRUE
      [] x.k = "inf" \/ y.k = "zero" -> FALSE
      [] OTHER -> \/ x.e < y.e
                  \/ x.e = y.e /\ (x.m = y.m \/ DigitsLess(x.m, y.m))

\* a - b for up to five digits a >= b: the five digits of the difference, one
\* digit after the other, from the last.
SubDigits(a, b) ==
    LET x == Zeros(5 - Len(a)) \o a
        y == Zeros(5 - Len(b)) \o b
        t5 == x[5] - y[5]
        t4 == x[4] - y[4] - (IF t5 < 0 THEN 1 ELSE 0)
        t3 == x[3] - y[3] - (IF t4 < 0 THEN 1 ELSE 0)
        t2 == x[2] - y[2] - (IF t3 < 0 THEN 1 ELSE 0)
        t1 == x[1] - y[1] - (IF t2 < 0 THEN 1 ELSE 0)
        Digit(t) == IF t < 0 THEN t + Base ELSE t
    IN <<Digit(t1), Digit(t2), Digit(t3), Digit(t4), Digit(t5)>>

\* 1 - x in p bits for a float 0 <= x <= 1 no smaller than 2^-10: the
\* difference 2^(p - e) - M is exact before it is rounded.
SubFromOne(x, p) ==
    IF x.k = "zero" THEN FromInt(1, p)
    ELSE RoundDigits(Strip(SubDigits(<<2^((p - x.e) % 16)>> \o Zeros((p - x.e) \div 16), x.m)),
                     x.e - p, FALSE, p)

\* The largest c in 0..15 with c * w <= num, for five digits num < 16 * w.
QuotDigit(num, w) ==
    CHOOSE c \in 0..15 : /\ ~DigitsLess(num, MulAdd(w, c, 0))
                         /\ DigitsLess(num, MulAdd(w, c + 1, 0))

\* Long division in base 16 of the five digits num < 16 * w by w: the
\* quotient digit of num, then n more, then 1 if a remainder is left and 0 if
\* not.  Every intermediate value is computed once.
RECURSIVE LongDiv(_, _, _)
LongDiv(num, w, n) ==
    With(QuotDigit(num, w), LAMBDA c :
      With(SubDigits(num, MulAdd(w, c, 0)), LAMBDA rem :
        IF n = 0 THEN <<c, IF Strip(rem) = <<>> THEN 0 ELSE 1>>
        ELSE <<c>> \o LongDiv(MulAdd(Strip(rem), 16, 0), w, n - 1)))

\* x / y in p bits for floats x >= 0 and y > 0 that are no special values: the
\* quotient of the two p-bit significands to 56 binary places, which is more
\* than p bits, and whether it is inexact.
FloatDiv(x, y, p) ==
    IF x.k = "zero" THEN Zero
    ELSE With(x.m, LAMBDA a :
           With(y.m, LAMBDA b :
             With(LongDiv(Zeros(5 - Len(a)) \o a, b, 14), LAMBDA h :
               RoundDigits(<<h[1] * 256 + h[2] * 16 + h[3],
                             h[4] * 4096 + h[5] * 256 + h[6] * 16 + h[7],
                             h[8] * 4096 + h[9] * 256 + h[10] * 16 + h[11],
                             h[12] * 4096 + h[13] * 256 + h[14] * 16 + h[15]>>,
                           x.e - y.e - 56, h[16] = 1, p))))

\* math.ceil(x) for a float 0 <= x < 2^31.
Ceil(x) ==
    IF x.k = "zero" THEN 0
    ELSE IF x.e <= 0 THEN 1
    ELSE LET drop == BitsOf(x.m) - x.e
             whole == drop \div 16
             cut == DivRem(SubSeq(x.m, 1, Len(x.m) - whole), 2^(drop % 16))
             gone == SubSeq(x.m, Len(x.m) - whole + 1, Len(x.m))
         IN DigitsInt(cut.q) + (IF cut.r # 0 \/ Strip(gone) # <<>> THEN 1 ELSE 0)

\* The float a decimal literal of i tenths is read as (0.2 for i = 2).
Tenths(i) == NpDivInt(FromInt(i, Double), 10, Double)

\* ------------------------------------------------------------- frame table
\* A row of the frame table.  'Frame Path' is the list of its
\* underscore-delimited segments <<patient, clip, frame>>.
Row(i, p, c, f, y) ==
    [idx |-> i, Patient |-> p, FramePath |-> <<p, c, f>>, Class |-> y]

\* The frames of patient p: one clip, two frames for odd p and one for even.
PatientRows(p, y) ==
    IF p % 2 = 1 THEN <<Row(0, p, 1, 1, y), Row(0, p, 1, 2, y)>>
    ELSE <<Row(0, p, 1, 1, y)>>

RECURSIVE TableRows(_, _)
TableRows(n, cls) ==
    IF n = 0 THEN <<>> ELSE TableRows(n - 1, cls) \o PatientRows(n, cls[n])

Reindex(rows) == [i \in DOMAIN rows |-> [rows[i] EXCEPT !.idx = i]]

\* The frame tables considered: 1..NPatients patients; patients 1..j are of
\* class 0 and the others of class 1, for every j.
FrameTables ==
    UNION {{Reindex(TableRows(n, [p \in 1..n |-> IF p <= j THEN 0 ELSE 1])) : j \in 0..n} :
           n \in 1..NPatients}

EmptyDf == <<>>

\* frame_df['Patient'].unique()
Unique(df) == {df[i].Patient : i \in DOMAIN df}

\* frame_df[frame_df['Patient'].isin(pts)]
IsIn(df, pts) == SelectSeq(df, LAMBDA r : r.Patient \in pts)

\* 'Frame Path'.str.rsplit('_', 1, expand=True)[0]: the path without its last
\* underscore-delimited segment (the whole path when it has no underscore).
RSplitFirst(path) ==
    IF Len(path) > 1 THEN SubSeq(path, 1, Len(path) - 1) ELSE path

\* df['Clip'] = ...: the frame rows with their Clip column.
WithClip(df) ==
    [i \in DOMAIN df |->
        [idx |-> df[i].idx, Patient |-> df[i].Patient, FramePath |-> df[i].FramePath,
         Class |-> df[i].Class, Clip |-> RSplitFirst(df[i].FramePath)]]

\* Lexicographic order of two segment lists.
RECURSIVE SeqLess(_, _)
SeqLess(a, b) ==
    IF a = <<>> THEN b # <<>>
    ELSE IF b = <<>> THEN FALSE
    ELSE IF Head(a) # Head(b) THEN Head(a) < Head(b)
    ELSE SeqLess(Tail(a), Tail(b))

RECURSIVE SortSegs(_)
SortSegs(S) ==
    IF S = {} THEN <<>>
    ELSE LET m == CHOOSE x \in S : \A y \in S \ {x} : SeqLess(x, y)
         IN <<m>> \o SortSegs(S \ {m})

\* ClipTable taking the last frame row of every clip instead of the first.
ClipTable_last(df) ==
    LET clips == SortSegs({df[i].Clip : i \in DOMAIN df})
        last(c) == df[CHOOSE i \in DOMAIN df :
                         /\ df[i].Clip = c
                         /\ \A j \in DOMAIN df : df[j].Clip = c => j <= i]
    IN [k \in DOMAIN clips |->
          [filename |-> clips[k], Patient |-> last(clips[k]).Patient,
           Class |-> last(clips[k]).Class]]

\* df.groupby('Clip').first().reset_index().drop('Frame Path', axis=1)
\*   .rename(columns={'Clip': 'filename'}): one row per clip, sorted by clip,
\* holding the columns of the first frame row of that clip.
ClipTable(df) ==
    LET clips == SortSegs({df[i].Clip : i \in DOMAIN df})
        first(c) == df[CHOOSE i \in DOMAIN df :
                          /\ df[i].Clip = c
                          /\ \A j \in DOMAIN df : df[j].Clip = c => i <= j]
    IN [k \in DOMAIN clips |->
          [filename |-> clips[k], Patient |-> first(clips[k]).Patient,
           Class |-> first(clips[k]).Class]]

\* ------------------------------------------------- sklearn train_test_split
\* n_test = ceil(test_size * n_samples) for a float test_size.
NTest(test_size, n_samples) ==
    With(test_size, LAMBDA size :
      With(n_samples, LAMBDA n :
        With(MulInt(size, n, Double), LAMBDA prod : Ceil(prod))))

\* train_test_split(arr, test_size=test_size) with a float test_size:
\* ValueError unless 0 < test_size < 1 and the train part is not empty.
SplitRaises(arr, test_size) ==
    \/ test_size.k # "pos"
    \/ FloatLeq(FromInt(1, Double), test_size)
    \/ Cardinality(arr) - NTest(test_size, Cardinality(arr)) = 0

\* The <<train, test>> pairs a shuffle can give: the test part holds n_test
\* elements, the train part the others.
TrainTestSplit(arr, test_size) ==
    {<<arr \ T, T>> :
        T \in With(NTest(test_size, Cardinality(arr)), LAMBDA n_test :
                    {S \in SUBSET arr : Cardinality(S) = n_test})}

\* -------------------------------------------------------- partition_dataset
\* Line 77: relative_val_split = val_split / (1 - (test_split)), for floats
\* val_split and test_split < 1.
relative_val_split(val_split, test_split) ==
    FloatDiv(val_split, SubFromOne(test_split, Double), Double)

\* The exception partition_dataset raises before any split is made, or "none",
\* for floats val_split and test_split: the division of line 77 comes first.
PartitionError(df, val_split, test_split) ==
    IF SubFromOne(test_split, Double).k = "zero" THEN "ZeroDivisionError"
    ELSE IF SplitRaises(Unique(df), test_split) THEN "ValueError"
    ELSE IF \E rel \in {relative_val_split(val_split, test_split)} :
               \A tt \in TrainTestSplit(Unique(df), test_split) :
                   SplitRaises(tt[1], rel) THEN "ValueError"
    ELSE "none"

\* The patient partitions partition_dataset can compute.
PartitionPts(df, val_split, test_split) ==
    With(relative_val_split(val_split, test_split), LAMBDA rel :
      UNION {{[train |-> tv[1], val |-> tv[2], test |-> tt[2]] :
                  tv \in TrainTestSplit(tt[1], rel)} :
             tt \in TrainTestSplit(Unique(df), test_split)})

\* -------------------------------------------------------- get_class_weights
\* np.bincount(classes): entry c counts the rows of class c; the length is the
\* largest class present plus one (0 for no rows).
Bincount(classes) ==
    LET top == IF classes = <<>> THEN -1
               ELSE CHOOSE c \in Range(classes) : \A x \in Range(classes) : x <= c
    IN [c \in 1..(top + 1) |-> Cardinality({i \in DOMAIN classes : classes[i] = c - 1})]

\* Weight without the factor 1.0 / len(histogram).
Weight_unnormalised(histogram, i) ==
    NpDivInt(FromInt(SumSeq(histogram), Double), histogram[i], Double)

\* weights[i] = (1.0 / len(histogram)) * sum(histogram) / histogram[i]
Weight(histogram, i) ==
    NpDivInt(MulInt(NpDivInt(FromInt(1, Double), Len(histogram), Double),
                    SumSeq(histogram), Double),
             histogram[i], Double)

\* get_class_weights(histogram).  kind is the type of the argument: the
\* elements of a Python "list" are ints, whose division by zero raises;
\* those of an "ndarray" are numpy integers, whose division by zero gives inf.
\* weights[i] is the weight of class i - 1.
get_class_weights(histogram, kind) ==
    IF kind = "list" /\ \E i \in DOMAIN histogram : histogram[i] = 0
    THEN [error |-> "ZeroDivisionError", weights |-> <<>>]
    ELSE [error |-> "none",
          weights |-> [i \in DOMAIN histogram |-> Weight(histogram, i)]]

\* np.log(histogram[1] / histogram[0]) of numpy integers: the float q of the
\* quotient stands for ln(q) when it is positive.  Needs at least two
\* histogram entries.
OutputBias(histogram) ==
    LET q == NpDivInt(FromInt(histogram[2], Double), histogram[1], Double)
    IN IF q.k = "zero" THEN NegInf ELSE q

\* -------------------------------------------------------------- train_model
Ev(op, m) == [op |-> op, m |-> m]

\* AfterFit saving the model only once the test set is evaluated.
AfterFit_savelast(save_weights, logging, m) ==
    <<Ev("evaluate", m)>>
    \o (IF save_weights THEN <<Ev("save_model", m)>> ELSE <<>>)
    \o (IF logging THEN <<Ev("log_test_results", m)>> ELSE <<>>)
    \o <<Ev("train_model_return", m)>>

\* The calls of train_model after the model is fitted (lines 209-226).
AfterFit(save_weights, logging, m) ==
    (IF save_weights THEN <<Ev("save_model", m)>> ELSE <<>>)
    \o <<Ev("evaluate", m)>>
    \o (IF logging THEN <<Ev("log_test_results", m)>> ELSE <<>>)
    \o <<Ev("train_model_return", m)>>

\* train_model(model_def, preprocessing_fn, trn, val, tst, hparams,
\* save_weights, log_dir) for the m-th model of the process: the histogram,
\* the class weights, the output bias, the exception raised and the calls
\* made, in order.  logging: log_dir is not None; acc: the accuracy that
\* model.evaluate measures on the test set.
train_model(trn, save_weights, logging, m, acc) ==
    LET hist == Bincount([i \in DOMAIN trn |-> trn[i].Class])
        cw == get_class_weights(hist, "ndarray")
        base == [histogram |-> hist, class_weight |-> cw.weights,
                 output_bias |-> NaN, error |-> "none", test_metrics |-> 0,
                 events |-> <<Ev("get_class_weights", m)>>]
    IN IF Len(hist) < 2
       THEN [base EXCEPT !.error = "IndexError"]
       ELSE [base EXCEPT
                !.output_bias = OutputBias(hist),
                !.test_metrics = acc,
                !.events = @ \o <<Ev("model_def", m)>>
                             \o (IF logging THEN <<Ev("TensorBoard", m)>> ELSE <<>>)
                             \o <<Ev("fit", m)>>
                             \o AfterFit(save_weights, logging, m)]

\* ------------------------------------------------------------------- state
VARIABLES
    cfg,            \* the configuration read at module load (config.yml)
    frame_df,       \* the frame table at cfg['PATHS']['FRAMES_TABLE']
    pc,             \* the statement the process is at
    stack,          \* return labels of the calls in progress
    error,          \* the exception that ended the process, or "none"
    entry,          \* arguments of train_experiment
    args,           \* arguments of train_single / cross_validation
    train_pts, val_pts, test_pts,       \* patient partition
    train_df, val_df, test_df,          \* frame-level partitions
    partition_dir,  \* PARTITIONS_DIR/CUR_DATETIME and the files in it
    histogram, class_weight, output_bias,   \* locals of train_model
    test_metrics,   \* test_metrics['accuracy'] of the last model, in quarters
    n_models,       \* number of train_model calls so far
    model_file,     \* the model artifacts under MODEL_WEIGHTS: path -> model stored
    hparam_names,   \* bayesian_hparam_optimization: the searched hyperparameters
    dimensions,     \* bayesian_hparam_optimization: the search dimensions
    hparams,        \* the hyperparameter mapping in use
    init_results,   \* bayesian_hparam_optimization: the results dict in memory
    results_file,   \* EXPERIMENTS/hparam_search_<model><datetime>.csv
    trial,          \* number of objective calls gp_minimize has completed
    folds,          \* cross_validation: the test patients of each KFold fold
    cur_fold,       \* cross_validation: the fold being trained
    fold_pts,       \* cross_validation: the patient partition of each fold so far
    metrics_df,     \* cross_validation: the results table, column by column
    trace,          \* the calls made so far, in order
    heatmap_gen_fn, \* GradCAMExplainer: the heatmap function of the mode
    idx,            \* apply_gradcam: the row of the frame table it is at
    computed,       \* the heatmap the heatmap function computed for the row
    raw_heatmap,    \* apply_gradcam: what the heatmap function returned
    heatmap,        \* apply_gradcam: the heatmap after clip and normalisation
    figures,        \* the rows whose overlay visualize_heatmap has rendered
    frames_table,   \* get_heatmap_for_frame: the table at cfg['PATHS']['FRAMES_TABLE']
    file_path,      \* get_heatmap_for_frame: the base name of the file selected
    prompts,        \* the file dialogs opened so far
    labels,         \* plot_confusion_matrix: the ground-truth labels
    predictions,    \* plot_confusion_matrix: the prediction scores, in hundredths
    cm,             \* plot_confusion_matrix: the confusion matrix
    ds,             \* Preprocessor.prepare: the dataset it is given
    prepared        \* Preprocessor.prepare: the batches of the dataset it returns

partVars == <<train_pts, val_pts, test_pts, train_df, val_df, test_df, partition_dir>>
modelVars == <<histogram, class_weight, output_bias, test_metrics, n_models, model_file>>
searchVars == <<hparam_names, dimensions, hparams, init_results, results_file, trial>>
cvVars == <<folds, cur_fold, fold_pts, metrics_df>>
ctlVars == <<pc, stack, error, entry, args>>
gradVars == <<heatmap_gen_fn, idx, computed, raw_heatmap, heatmap, figures,
              frames_table, file_path, prompts>>
vizVars == <<labels, predictions, cm>>
dataVars == <<ds, prepared>>
vars == <<cfg, frame_df, ctlVars, partVars, modelVars, searchVars, cvVars, trace, gradVars,
          vizVars, dataVars>>

\* ------------------------------------------------------------ configuration
Experiments == {"single_train", "hparam_search", "cross_validation"}
\* With an EXPERIMENT_TYPE that is none of the three.
ExperimentNames == Experiments \cup {"predict"}
\* The values of VAL_SPLIT and TEST_SPLIT considered, in tenths.
ValSplits == {0, 2, 5}
TestSplits == {2, 5, 10}
\* The hyperparameters of HPARAMS[<model>], in configuration order.
HparamList == <<"LR", "DROPOUT">>
\* The TYPE of an entry of HPARAM_SEARCH[<model>]: the four the search knows,
\* and one it does not.
Types == {"set", "int_uniform", "float_log", "float_uniform", "other"}
\* test_metrics['accuracy'] values considered, in quarters.
Accuracies == {2, 3}

NoDir == [exists |-> FALSE, train_set_frames |-> EmptyDf, val_set_frames |-> EmptyDf,
          test_set_frames |-> EmptyDf, train_set_clips |-> EmptyDf,
          val_set_clips |-> EmptyDf, test_set_clips |-> EmptyDf]
NoFile == [exists |-> FALSE, rows |-> <<>>]
NoArgs == [save_weights |-> FALSE, write_logs |-> FALSE, save_partitions |-> FALSE]

Raise(e) == pc' = "raised" /\ error' = e /\ stack' = <<>>

\* PartitionFrames filtering the validation rows by the patients of the
\* train/validation remainder instead of the validation patients.
PartitionFrames_trainval(df, p) ==
    [train |-> WithClip(IsIn(df, p.train)),
     val |-> WithClip(IsIn(df, p.train \cup p.val)),
     test |-> WithClip(IsIn(df, p.test))]

\* Lines 83-89: the frame rows of each part, with their Clip column.
PartitionFrames(df, p) ==
    [train |-> WithClip(IsIn(df, p.train)),
     val |-> WithClip(IsIn(df, p.val)),
     test |-> WithClip(IsIn(df, p.test))]

\* -------------------------------------------------------- partition_dataset
\* makedirs creating the directory or accepting the one there is.
makedirs_exist_ok(dir) == "none"

\* Line 102: os.makedirs(partition_dir) raises when the directory exists.
makedirs(dir) == IF dir.exists THEN "FileExistsError" ELSE "none"

\* partition_dataset(val_split, test_split, save_dfs), lines 66-109; on
\* return the process goes on at label next.  The directory is that of
\* CUR_DATETIME, the timestamp of line 24: the same at every call.
partition_dataset(val_split, test_split, save_dfs, next) ==
    \E v \in {Tenths(val_split)}, t \in {Tenths(test_split)} :
    \E e \in {PartitionError(frame_df, v, t)} :
       IF e # "none"
       THEN Raise(e) /\ UNCHANGED <<partVars, trace>>
       ELSE \E p \in PartitionPts(frame_df, v, t) :
              \* random_state is fixed: a second call in the process splits alike
              /\ train_pts # {} =>
                    p.train = train_pts /\ p.val = val_pts /\ p.test = test_pts
              /\ LET trn == PartitionFrames(frame_df, p).train
                     val == PartitionFrames(frame_df, p).val
                     tst == PartitionFrames(frame_df, p).test
                 IN IF save_dfs /\ makedirs(partition_dir) # "none"
                    THEN Raise(makedirs(partition_dir)) /\ UNCHANGED <<partVars, trace>>
                    ELSE /\ train_pts' = p.train /\ val_pts' = p.val /\ test_pts' = p.test
                         /\ train_df' = trn /\ val_df' = val /\ test_df' = tst
                         /\ partition_dir' =
                               IF save_dfs
                               THEN [exists |-> TRUE, train_set_frames |-> trn,
                                     val_set_frames |-> val, test_set_frames |-> tst,
                                     train_set_clips |-> ClipTable(trn),
                                     val_set_clips |-> ClipTable(val),
                                     test_set_clips |-> ClipTable(tst)]
                               ELSE partition_dir
                         /\ trace' = Append(trace, Ev("partition_dataset", n_models + 1))
                         /\ pc' = next /\ UNCHANGED <<error, stack>>

\* Line 24: CUR_DATETIME, the one timestamp taken when the module is loaded.
CUR_DATETIME == "CUR_DATETIME"

\* model_path naming the file after the number of the model as well.
model_path_fold(m) ==
    [dir |-> "MODEL_WEIGHTS", datetime |-> CUR_DATETIME, model_def |-> "MODEL_DEF",
     fold |-> m]

\* Line 211: model_path = MODEL_WEIGHTS + 'model' + CUR_DATETIME + '-' +
\* MODEL_DEF + '.h5' for the m-th model of the process: m is no part of it.
model_path(m) ==
    [dir |-> "MODEL_WEIGHTS", datetime |-> CUR_DATETIME, model_def |-> "MODEL_DEF"]

\* Lines 212-215: save_model(model, model_path) writes model m at path, over
\* the file there if there is one.
save_model(files, path, m) ==
    [p \in DOMAIN files \cup {path} |-> IF p = path THEN m ELSE files[p]]

\* No model artifact has been written.
NoFiles == [p \in {} |-> 0]

\* The state train_model leaves behind: its locals, the model count and the
\* file at model_path, which save_model overwrites.
ApplyTrainModel(r, save_weights) ==
    /\ histogram' = r.histogram
    /\ class_weight' = r.class_weight
    /\ output_bias' = r.output_bias
    /\ test_metrics' = r.test_metrics
    /\ n_models' = n_models + 1
    /\ model_file' = IF save_weights /\ r.error = "none"
                   THEN save_model(model_file, model_path(n_models + 1), n_models + 1)
                   ELSE model_file

Return ==
    IF stack = <<>> THEN pc' = "done" /\ stack' = <<>>
    ELSE pc' = Head(stack) /\ stack' = Tail(stack)

\* ------------------------------------------------------------- entry point
\* Main passing the defaults of the two flags.
Main_defaults ==
    /\ pc = "__main__"
    /\ entry' = [experiment |-> cfg.EXPERIMENT_TYPE, save_weights |-> FALSE,
                 write_logs |-> FALSE, caller |-> "__main__"]
    /\ pc' = "train_experiment"
    /\ UNCHANGED <<cfg, frame_df, vizVars, dataVars, gradVars, stack, error, args, partVars, modelVars,
                   searchVars, cvVars, trace>>

\* if __name__ == '__main__': train_experiment(cfg['TRAIN']['EXPERIMENT_TYPE'],
\*                                             write_logs=True, save_weights=True)
Main ==
    /\ pc = "__main__"
    /\ entry' = [experiment |-> cfg.EXPERIMENT_TYPE, save_weights |-> TRUE,
                 write_logs |-> TRUE, caller |-> "__main__"]
    /\ pc' = "train_experiment"
    /\ UNCHANGED <<cfg, frame_df, vizVars, dataVars, gradVars, stack, error, args, partVars, modelVars,
                   searchVars, cvVars, trace>>

\* Dispatch falling back to a single training for a name it does not know.
Dispatch_fallback(experiment) ==
    CASE experiment = "hparam_search" -> "bayesian_hparam_optimization"
      [] experiment = "cross_validation" -> "cross_validation"
      [] OTHER -> "train_single"

\* Lines 444-451: the function train_experiment calls for an experiment name,
\* "raise" for a name it does not know.
Dispatch(experiment) ==
    CASE experiment = "single_train" -> "train_single"
      [] experiment = "hparam_search" -> "bayesian_hparam_optimization"
      [] experiment = "cross_validation" -> "cross_validation"
      [] OTHER -> "raise"

\* train_experiment(experiment, save_weights, write_logs), lines 435-452.
train_experiment ==
    /\ pc = "train_experiment"
    /\ CASE Dispatch(entry.experiment) = "train_single" ->
              /\ args' = [save_weights |-> entry.save_weights,
                          write_logs |-> entry.write_logs, save_partitions |-> TRUE]
              /\ pc' = "train_single"
              /\ trace' = Append(trace, Ev("train_single", 0))
              /\ UNCHANGED <<error, stack>>
         [] Dispatch(entry.experiment) = "bayesian_hparam_optimization" ->
              /\ pc' = "bayesian_hparam_optimization"
              /\ trace' = Append(trace, Ev("bayesian_hparam_optimization", 0))
              /\ UNCHANGED <<error, stack, args>>
         [] Dispatch(entry.experiment) = "cross_validation" ->
              /\ args' = [save_weights |-> entry.save_weights,
                          write_logs |-> entry.write_logs, save_partitions |-> FALSE]
              /\ pc' = "cross_validation"
              /\ trace' = Append(trace, Ev("cross_validation", 0))
              /\ UNCHANGED <<error, stack>>
         [] OTHER ->
              /\ Raise("Exception")
              /\ UNCHANGED <<args, trace>>
    /\ UNCHANGED <<cfg, frame_df, vizVars, dataVars, gradVars, entry, partVars, modelVars, searchVars, cvVars>>

\* ------------------------------------------------------------ train_single
\* train_single, lines 238-239: the call of partition_dataset.
train_single_partition ==
    /\ pc = "train_single"
    /\ partition_dataset(cfg.VAL_SPLIT, cfg.TEST_SPLIT, args.save_partitions,
                         "train_single_train")
    /\ UNCHANGED <<cfg, frame_df, vizVars, dataVars, gradVars, entry, args, modelVars, searchVars, cvVars>>

\* train_single, lines 240-254: the hyperparameters default to those of the
\* configuration; train_model; return.
train_single_train ==
    /\ pc = "train_single_train"
    /\ \E acc \in Accuracies :
         \E r \in {train_model(train_df, args.save_weights, args.write_logs,
                               n_models + 1, acc)} :
            /\ ApplyTrainModel(r, args.save_weights)
            /\ trace' = trace \o r.events
            /\ IF r.error # "none" THEN Raise(r.error)
               ELSE Return /\ UNCHANGED error
    /\ hparams' = IF DOMAIN hparams = {} THEN cfg.HPARAMS ELSE hparams
    /\ UNCHANGED <<cfg, frame_df, vizVars, dataVars, gradVars, entry, args, partVars, hparam_names, dimensions, init_results,
                   results_file, trial, cvVars>>


\* ----------------------------------------------- save_hparam_search_results
\* Cells of a results table: a Python str or int, a float, or the text of a
\* CSV file.  The metric is held in quarters.
Cell(t, v) == [t |-> t, v |-> v]

\* results_df.to_csv(results_path, index=False): every cell becomes text.
ToCsv(results) ==
    [Trial |-> [i \in DOMAIN results.Trial |-> Cell("text", results.Trial[i].v)],
     metric |-> [i \in DOMAIN results.metric |-> Cell("text", results.metric[i].v)],
     hp |-> [h \in DOMAIN results.hp |->
               [i \in DOMAIN results.hp[h] |-> Cell("text", results.hp[h][i].v)]]]

\* pd.read_csv(results_path).to_dict(orient='list'): the text is parsed, the
\* trial indices as integers and the other columns as numbers.
ReadCsv(file) ==
    [Trial |-> [i \in DOMAIN file.Trial |-> Cell("int", file.Trial[i].v)],
     metric |-> [i \in DOMAIN file.metric |-> Cell("float", file.metric[i].v)],
     hp |-> [h \in DOMAIN file.hp |->
               [i \in DOMAIN file.hp[h] |-> Cell("float", file.hp[h][i].v)]]]

\* AppendTrial replacing the columns by the row of this trial.
AppendTrial_replace(results, score, names, hp) ==
    [Trial |-> <<Cell("str", Len(results.Trial))>>,
     metric |-> <<Cell("float", 4 - score)>>,
     hp |-> [h \in DOMAIN results.hp |-> <<Cell("float", hp[h])>>]]

\* Lines 276-280: the row of this trial is appended to every column.
AppendTrial(results, score, names, hp) ==
    [Trial |-> Append(results.Trial, Cell("str", Len(results.Trial))),
     metric |-> Append(results.metric, Cell("float", 4 - score)),
     hp |-> [h \in DOMAIN results.hp |->
               IF h \in Range(names) THEN Append(results.hp[h], Cell("float", hp[h]))
               ELSE results.hp[h]]]

\* save_hparam_search_results(init_dict, score, objective_metric, hparam_names,
\* hparams, model_name, cur_datetime), lines 257-284, on the file of this
\* model name and datetime: the table written and the dict returned.  When
\* the file does not exist the dict appended to is init_dict itself.
save_hparam_search_results(init_dict, score, names, hp, file) ==
    LET results == IF file.exists THEN ReadCsv(file.rows) ELSE init_dict
        after == AppendTrial(results, score, names, hp)
    IN [file |-> [exists |-> TRUE, rows |-> ToCsv(after)],
        init_dict |-> IF file.exists THEN init_dict ELSE after,
        results |-> after]

\* ------------------------------------------- bayesian_hparam_optimization
NoResults == [Trial |-> <<>>, metric |-> <<>>, hp |-> [h \in {} |-> <<>>]]
NoHparams == [h \in {} |-> 0]

\* Lines 295-317: the hyperparameters with a RANGE, in configuration order.
SearchedNames(c) == SelectSeq(HparamList, LAMBDA h : c.RANGE[h])

\* Lines 300-314: the dimension appended for a hyperparameter with a RANGE,
\* by its TYPE; none when the TYPE is not one of the four.
Dimension(c, h) ==
    CASE c.TYPE[h] = "set" -> <<[name |-> h, space |-> "Categorical", prior |-> "none"]>>
      [] c.TYPE[h] = "int_uniform" -> <<[name |-> h, space |-> "Integer", prior |-> "uniform"]>>
      [] c.TYPE[h] = "float_log" -> <<[name |-> h, space |-> "Real", prior |-> "log-uniform"]>>
      [] c.TYPE[h] = "float_uniform" -> <<[name |-> h, space |-> "Real", prior |-> "uniform"]>>
      [] OTHER -> <<>>

\* Lines 295-314: the dimensions, in configuration order.
RECURSIVE DimensionsOf(_, _)
DimensionsOf(c, names) ==
    IF names = <<>> THEN <<>>
    ELSE Dimension(c, Head(names)) \o DimensionsOf(c, Tail(names))
Dimensions(c) == DimensionsOf(c, SearchedNames(c))

\* bayesian_hparam_optimization, lines 291-319, up to the call of gp_minimize.
bayesian_setup ==
    /\ pc = "bayesian_hparam_optimization"
    /\ hparam_names' = SearchedNames(cfg)
    /\ dimensions' = Dimensions(cfg)
    /\ init_results' = [Trial |-> <<>>, metric |-> <<>>,
                        hp |-> [h \in Range(SearchedNames(cfg)) |-> <<>>]]
    /\ results_file' = NoFile
    /\ trial' = 0
    /\ pc' = "objective"
    /\ UNCHANGED <<cfg, frame_df, vizVars, dataVars, gradVars, stack, error, entry, args, partVars, modelVars,
                   hparams, cvVars, trace>>

\* The values gp_minimize samples for the first dimension there can be, and
\* for a dimension by the RANGE of its hyperparameter: the k-th hyperparameter
\* of the configuration has its own two values.
Samples == {1, 2}
Sampled(dimension) ==
    LET k == CHOOSE i \in DOMAIN HparamList : HparamList[i] = dimension.name
    IN {v + 2 * (k - 1) : v \in Samples}

\* The points gp_minimize passes to objective: a value per dimension.
Points(dims) ==
    {vals \in [DOMAIN dims -> UNION {Sampled(dims[i]) : i \in DOMAIN dims}] :
        \A i \in DOMAIN dims : vals[i] \in Sampled(dims[i])}

\* dict(zip(names, vals)): the i-th name with the i-th value, as far as both
\* lists go.
ZipDict(names, vals) ==
    LET n == IF Len(names) < Len(vals) THEN Len(names) ELSE Len(vals)
    IN [h \in {names[i] : i \in 1..n} |-> vals[CHOOSE i \in 1..n : names[i] = h]]

\* Lines 322-325: the searched values, and the configured value of every
\* hyperparameter that got none.
Hparams(names, vals, defaults) ==
    [h \in DOMAIN ZipDict(names, vals) \cup DOMAIN defaults |->
        IF h \in DOMAIN ZipDict(names, vals) THEN ZipDict(names, vals)[h] ELSE defaults[h]]

\* objective(vals), lines 322-327: the hyperparameter mapping of the trial,
\* then train_single without saving or logging.
objective_call ==
    /\ pc = "objective"
    /\ trial < cfg.N_TRIALS
    /\ \E vals \in Points(dimensions) :
         hparams' = Hparams(hparam_names, vals, cfg.HPARAMS)
    /\ args' = [save_weights |-> FALSE, write_logs |-> FALSE, save_partitions |-> FALSE]
    /\ stack' = <<"objective_return">> \o stack
    /\ pc' = "train_single"
    /\ trace' = Append(trace, Ev("train_single", 0))
    /\ UNCHANGED <<cfg, frame_df, vizVars, dataVars, gradVars, error, entry, partVars, modelVars, hparam_names, dimensions,
                   init_results, results_file, trial, cvVars>>

\* objective(vals), lines 328-331: the score, the session cleared, the trial
\* saved.
objective_return ==
    /\ pc = "objective_return"
    /\ LET score == 4 - test_metrics
           r == save_hparam_search_results(init_results, score, hparam_names,
                                           hparams, results_file)
       IN /\ results_file' = r.file
          /\ init_results' = r.init_dict
    /\ trial' = trial + 1
    /\ trace' = trace \o <<Ev("clear_session", n_models),
                           Ev("save_hparam_search_results", n_models)>>
    /\ pc' = "objective"
    /\ UNCHANGED <<cfg, frame_df, vizVars, dataVars, gradVars, stack, error, entry, args, partVars, modelVars,
                   hparam_names, dimensions, hparams, cvVars>>

\* bayesian_hparam_optimization, lines 335-337: gp_minimize has made its
\* N_TRIALS calls; the plot and the return.
bayesian_return ==
    /\ pc = "objective"
    /\ trial >= cfg.N_TRIALS
    /\ trace' = Append(trace, Ev("plot_bayesian_hparam_opt", 0))
    /\ Return
    /\ UNCHANGED <<cfg, frame_df, vizVars, dataVars, gradVars, error, entry, args, partVars, modelVars,
                   searchVars, cvVars>>


\* --------------------------------------------------------- cross_validation
\* The size of fold i (from 0) of KFold(n_splits=k) over n samples: the first
\* n % k folds hold one sample more.
FoldSize(n, k, i) == (n \div k) + (IF i < n % k THEN 1 ELSE 0)

\* The test sets KFold(n_splits=k, shuffle=True).split(pts) can yield, as the
\* list of the folds from fold i on: disjoint, of the sizes above.
RECURSIVE KFoldSplits(_, _, _, _)
KFoldSplits(pts, n, k, i) ==
    IF i = k THEN {<<>>}
    ELSE UNION {{<<T>> \o rest : rest \in KFoldSplits(pts \ T, n, k, i + 1)} :
                T \in {S \in SUBSET pts : Cardinality(S) = FoldSize(n, k, i)}}

\* TrainvalPts taking every patient, the test fold included.
TrainvalPts_all(all_pts, tst_pts) == all_pts

\* Line 390: all_pts[train_index], the patients outside the test fold.
TrainvalPts(all_pts, tst_pts) == all_pts \ tst_pts

\* cfg['DATA']['CLASSES'], in class-index order.
CLASSES == <<"parenchymal", "pleural">>

\* Lines 359-361: the metric columns of the results table.
Metrics ==
    <<"accuracy", "auc", "f1score">>
    \o [i \in DOMAIN CLASSES |-> "precision_" \o CLASSES[i]]
    \o [i \in DOMAIN CLASSES |-> "recall_" \o CLASSES[i]]

\* A cell of the table.  A number is kept as the exact quotient num / den, in
\* quarters, and a standard deviation as the square root of such a quotient.
Float(num, den) == [t |-> "float", num |-> num, den |-> den]
Sqrt(num, den) == [t |-> "sqrt", num |-> num, den |-> den]
Label(v) == [t |-> "label", v |-> v]
Vector(cells) == [t |-> "vector", cells |-> cells]

\* Lines 362-363: n_folds + 2 rows of zeros, and the Fold column
\* 0 .. n_folds - 1, 'mean', 'std'.
NewMetricsDf(n_folds) ==
    [c \in Range(Metrics) \cup {"Fold"} |->
        [i \in 1..(n_folds + 2) |->
            IF c # "Fold" THEN Float(0, 1)
            ELSE IF i <= n_folds THEN Float(i - 1, 1)
            ELSE IF i = n_folds + 1 THEN Label("mean") ELSE Label("std")]]

\* Lines 185-186 and 218-222: test_metrics, the names of model.metrics_names
\* (the loss, then the metrics the model was compiled with) zipped with what
\* model.evaluate measured, in quarters, for a model of accuracy acc.
Evaluate(acc) ==
    [loss |-> 4 - acc, accuracy |-> acc, auc |-> acc + 1,
     precision |-> acc - 1, recall |-> acc - 2]

\* Lines 409-411: test_metrics[metric] goes to row row_idx (from 0) of the
\* column named metric, when the table has such a column.
RecordFold(df, row_idx, metrics) ==
    [c \in DOMAIN df |->
        IF c \in DOMAIN metrics
        THEN [df[c] EXCEPT ![row_idx + 1] = Float(metrics[c], 1)]
        ELSE df[c]]

\* column[0:-2]: all the rows but the last two.
FoldRows(column) == SubSeq(column, 1, Len(column) - 2)

\* Series.mean() of rows of numbers: their sum over their count.
Mean(rows) == Float(SumSeq([i \in DOMAIN rows |-> rows[i].num]), Len(rows))

\* The variance with ddof delta degrees of freedom: avg = sum / count, the
\* squares (avg - x)^2 = (sum - count * x)^2 / count^2 summed and divided by
\* count - ddof.  Its root is the standard deviation.
Std(rows, ddof) ==
    LET count == Len(rows)
        sum == SumSeq([i \in DOMAIN rows |-> rows[i].num])
        sqr == [i \in DOMAIN rows |-> (sum - count * rows[i].num) * (sum - count * rows[i].num)]
    IN Sqrt(SumSeq(sqr), count * count * (count - ddof))

\* np.vstack(rows): one row per fold, as wide as the f1score entry of a fold;
\* a number makes a row of width 1.  Then .std(axis=0, ddof=1): one standard
\* deviation per column.
VStack(rows) ==
    [i \in DOMAIN rows |-> IF rows[i].t = "vector" THEN rows[i].cells ELSE <<rows[i]>>]
StdAxis0(stacked, ddof) ==
    [j \in DOMAIN stacked[1] |-> Std([i \in DOMAIN stacked |-> stacked[i][j]], ddof)]

\* Storing an array in one cell of a float column: an array of one element
\* gives its element.
SetCell(array) == IF Len(array) = 1 THEN array[1] ELSE Vector(array)

\* Lines 419-427: the 'mean' and 'std' rows of every metric column.
Summary(df, n_folds) ==
    [c \in DOMAIN df |->
        IF c = "Fold" THEN df[c]
        ELSE LET mean == Mean(FoldRows(df[c]))
                 \* the mean is stored before the deviation is computed
                 col == [df[c] EXCEPT ![n_folds + 1] = mean]
             IN [col EXCEPT ![n_folds + 2] =
                    IF c = "f1score"
                    THEN SetCell(StdAxis0(VStack(FoldRows(col)), 1))
                    ELSE Std(FoldRows(col), 1)]]

\* cross_validation, lines 347-385, and the start of the iteration over
\* pt_k_fold.split(all_pts), which raises when there are fewer patients than
\* folds.
cross_validation_setup ==
    /\ pc = "cross_validation"
    /\ LET all_pts == Unique(frame_df)
       IN IF cfg.N_FOLDS > Cardinality(all_pts)
          THEN Raise("ValueError") /\ UNCHANGED <<folds, cur_fold, fold_pts>>
          ELSE /\ folds' \in KFoldSplits(all_pts, Cardinality(all_pts), cfg.N_FOLDS, 0)
               /\ cur_fold' = 0
               /\ fold_pts' = <<>>
               /\ pc' = "cv_fold"
               /\ UNCHANGED <<error, stack>>
    /\ metrics_df' = NewMetricsDf(cfg.N_FOLDS)
    /\ hparams' = IF DOMAIN hparams = {} THEN cfg.HPARAMS ELSE hparams
    /\ UNCHANGED <<cfg, frame_df, vizVars, dataVars, gradVars, entry, args, partVars, modelVars, hparam_names, dimensions,
                   init_results, results_file, trial, trace>>

\* One iteration of the loop of cross_validation, lines 386-416: the
\* partition of the fold, train_model, the clean-up.
cross_validation_fold ==
    /\ pc = "cv_fold"
    /\ cur_fold < cfg.N_FOLDS
    /\ LET all_pts == Unique(frame_df)
           tst_pts == folds[cur_fold + 1]
           trainval_pts == TrainvalPts(all_pts, tst_pts)
       IN \E val_split \in {NpDivInt(FromInt(1, Double), cfg.N_FOLDS, Double)} :
          IF SplitRaises(trainval_pts, val_split)
          THEN /\ Raise("ValueError")
               /\ UNCHANGED <<partVars, modelVars, cur_fold, fold_pts, metrics_df, trace>>
          ELSE \E tv \in TrainTestSplit(trainval_pts, val_split), acc \in Accuracies :
                 \E r \in {train_model(IsIn(frame_df, tv[1]), args.save_weights,
                                        args.write_logs, n_models + 1, acc)} :
                    /\ train_pts' = tv[1] /\ val_pts' = tv[2] /\ test_pts' = tst_pts
                    /\ train_df' = IsIn(frame_df, tv[1])
                    /\ val_df' = IsIn(frame_df, tv[2])
                    /\ test_df' = IsIn(frame_df, tst_pts)
                    /\ fold_pts' = Append(fold_pts,
                                          [train |-> tv[1], val |-> tv[2], test |-> tst_pts])
                    /\ ApplyTrainModel(r, args.save_weights)
                    /\ UNCHANGED partition_dir
                    /\ IF r.error # "none"
                       THEN /\ Raise(r.error)
                            /\ trace' = trace \o r.events
                            /\ UNCHANGED <<cur_fold, metrics_df>>
                       ELSE /\ metrics_df' = RecordFold(metrics_df, cur_fold, Evaluate(acc))
                            /\ cur_fold' = cur_fold + 1
                            /\ trace' = trace \o r.events
                                          \o <<Ev("gc_collect", n_models + 1),
                                               Ev("clear_session", n_models + 1)>>
                            /\ UNCHANGED <<pc, error, stack>>
    /\ UNCHANGED <<cfg, frame_df, vizVars, dataVars, gradVars, entry, args, searchVars, folds>>

\* cross_validation, lines 418-433: the summary rows, the results file, the
\* return.
cross_validation_return ==
    /\ pc = "cv_fold"
    /\ cur_fold >= cfg.N_FOLDS
    /\ metrics_df' = Summary(metrics_df, cfg.N_FOLDS)
    /\ trace' = Append(trace, Ev("metrics_df_to_csv", 0))
    /\ Return
    /\ UNCHANGED <<cfg, frame_df, vizVars, dataVars, gradVars, error, entry, args, partVars, modelVars,
                   searchVars, folds, cur_fold, fold_pts>>

\* ----------------------------------------------------------- the process
\* The configurations considered.  A field the experiment never reads keeps
\* one value, and the search is run with the splits 0.2 / 0.2.  Every TYPE
\* is tried on the first hyperparameter, 'set' and an unknown one on the
\* others, and a TYPE other than 'set' with a single trial.
Configs ==
    {[VAL_SPLIT |-> v, TEST_SPLIT |-> t, EXPERIMENT_TYPE |-> e, N_FOLDS |-> f,
      N_TRIALS |-> n, HPARAMS |-> [h \in Range(HparamList) |-> 0], RANGE |-> rg,
      TYPE |-> ty] :
        v \in ValSplits, t \in TestSplits, e \in ExperimentNames,
        f \in 2..MaxFolds, n \in 1..MaxTrials, rg \in [Range(HparamList) -> BOOLEAN],
        ty \in [Range(HparamList) -> Types]}

Relevant(c) ==
    /\ c.EXPERIMENT_TYPE # "single_train" => c.VAL_SPLIT = 2 /\ c.TEST_SPLIT = 2
    /\ c.EXPERIMENT_TYPE # "cross_validation" => c.N_FOLDS = 2
    /\ c.EXPERIMENT_TYPE # "hparam_search" =>
          c.N_TRIALS = 1 /\ \A h \in Range(HparamList) : c.RANGE[h]
    /\ \A h \in Range(HparamList) :
          (c.EXPERIMENT_TYPE # "hparam_search" \/ ~c.RANGE[h]) => c.TYPE[h] = "set"
    /\ \A i \in 2..Len(HparamList) :
          /\ c.TYPE[HparamList[i]] \in {"set", "other"}
          /\ c.TYPE[HparamList[i]] = "other" => c.TYPE[HparamList[1]] \in {"set", "other"}
    /\ (\E h \in Range(HparamList) : c.TYPE[h] # "set") => c.N_TRIALS = 1

\* The calls of train_experiment considered besides that of the entry point;
\* hparam_search, which reads neither flag, is called with their defaults.
Calls(c) ==
    {e \in [experiment : {c.EXPERIMENT_TYPE}, save_weights : BOOLEAN,
             write_logs : BOOLEAN, caller : {"call"}] :
        c.EXPERIMENT_TYPE = "hparam_search" => ~e.save_weights /\ ~e.write_logs}

NoEntry == [experiment |-> "single_train", save_weights |-> FALSE,
            write_logs |-> FALSE, caller |-> "none"]

NoHeatmap == [isNone |-> TRUE, cells |-> <<>>]

\* Nothing has been partitioned, trained, searched or explained yet.
Fresh ==
    /\ stack = <<>> /\ error = "none"
    /\ train_pts = {} /\ val_pts = {} /\ test_pts = {}
    /\ train_df = EmptyDf /\ val_df = EmptyDf /\ test_df = EmptyDf
    /\ partition_dir = NoDir
    /\ class_weight = <<>> /\ output_bias = NaN
    /\ test_metrics = 0 /\ n_models = 0 /\ model_file = NoFiles
    /\ hparam_names = <<>> /\ dimensions = <<>> /\ hparams = NoHparams
    /\ init_results = NoResults /\ results_file = NoFile /\ trial = 0
    /\ folds = <<>> /\ cur_fold = 0 /\ fold_pts = <<>> /\ metrics_df = <<>>
    /\ trace = <<>>
    /\ heatmap_gen_fn = "None" /\ idx = 0 /\ computed = <<>>
    /\ raw_heatmap = NoHeatmap /\ heatmap = <<>> /\ figures = <<>>
    /\ file_path = <<>> /\ prompts = 0

\* No frame table is read by the file dialog.
NoFramesTable == frames_table = EmptyDf

\* No confusion matrix is being plotted.
NoPlot == labels = <<>> /\ predictions = <<>> /\ cm = <<>>

\* No dataset is being prepared.
NoDataset == ds = <<>> /\ prepared = <<>>

\* The training module, src/src/train.py, run as a script or called through
\* train_experiment.
Init ==
    /\ cfg \in {c \in Configs : Relevant(c)}
    /\ frame_df \in FrameTables
    /\ \/ pc = "__main__" /\ entry = NoEntry
       \/ pc = "train_experiment" /\ entry \in Calls(cfg)
    /\ args = NoArgs
    /\ histogram = <<>>
    /\ Fresh /\ NoPlot /\ NoDataset /\ NoFramesTable

Next ==
    \/ Main
    \/ train_experiment
    \/ train_single_partition
    \/ train_single_train
    \/ bayesian_setup
    \/ objective_call
    \/ objective_return
    \/ bayesian_return
    \/ cross_validation_setup
    \/ cross_validation_fold
    \/ cross_validation_return

Spec == Init /\ [][Next]_vars

\* ------------------------------------------- get_class_weights on its own
\* The histograms considered: every one of up to MaxClasses counts in
\* 0..MaxCount, equal counts for up to MaxEqualClasses classes, and the two of
\* the documentation, [80, 20] and [50, 50].
Histograms ==
    UNION {[1..n -> 0..MaxCount] : n \in 0..MaxClasses}
    \cup {[i \in 1..n |-> c] : n \in 1..MaxEqualClasses, c \in 1..MaxCount}
    \cup {<<80, 20>>, <<50, 50>>}

NoCfg == [EXPERIMENT_TYPE |-> "none"]

\* A caller holds a histogram, as a Python list or as a numpy array.
InitWeights ==
    /\ cfg = NoCfg /\ frame_df = EmptyDf /\ entry = NoEntry
    /\ pc = "get_class_weights"
    /\ histogram \in Histograms
    /\ args \in [histogram_type : {"list", "ndarray"}]
    /\ Fresh /\ NoPlot /\ NoDataset /\ NoFramesTable

\* class_weight = get_class_weights(histogram)
CallGetClassWeights ==
    /\ pc = "get_class_weights"
    /\ LET r == get_class_weights(histogram, args.histogram_type)
       IN /\ class_weight' = r.weights
          /\ error' = r.error
          /\ pc' = IF r.error = "none" THEN "done" ELSE "raised"
    /\ UNCHANGED <<cfg, frame_df, vizVars, dataVars, gradVars, stack, entry, args, partVars, histogram,
                   output_bias, test_metrics, n_models, model_file, searchVars,
                   cvVars, trace>>

NextWeights == CallGetClassWeights

SpecWeights == InitWeights /\ [][NextWeights]_vars

\* ---------------------------------------------------------------- Grad-CAM
\* src/src/explainability/gradcam.py.  A heatmap is the sequence of its cells;
\* its floats have the precision of the model's dtype.
Precision(dtype) == IF dtype = "float32" THEN 24 ELSE Double

\* EPSILON = np.finfo('float').eps = 2^-52, in p bits
EPSILON(p) == [FromInt(1, p) EXCEPT !.e = -51]

\* get_heatmap_gen_fn(mode): no branch for another mode, the result is None
get_heatmap_gen_fn(mode) ==
    CASE mode = "plusplus" -> "get_gradcam_plusplus_heatmap"
      [] mode = "normal" -> "get_gradcam_heatmap"
      [] OTHER -> "None"

\* What the heatmap function returns for the heatmap h it computed:
\* get_gradcam_plusplus_heatmap ends with 'return heatmap',
\* get_gradcam_heatmap with a bare 'return'.
Returned(fn, h) ==
    IF fn = "get_gradcam_plusplus_heatmap" THEN [isNone |-> FALSE, cells |-> h]
    ELSE NoHeatmap

\* The heatmaps a model can give for an image: whole numbers from -1 to
\* MaxHeat in every cell, and the specials a zero division leaves
\* (alphas /= alpha_norm, line 97).
HeatValues(p) == {FromInt(v, p) : v \in -1..MaxHeat} \cup {NaN, Inf, NegInf}
RawHeatmaps(p) == [1..HeatCells -> HeatValues(p)]

\* np.maximum(x, 0.0) with the clip left out.
Relu_noclip(x) == x

\* np.maximum(x, 0.0) of one cell: nan stays nan
Relu(x) == IF x.k \in {"neg", "ninf"} THEN Zero ELSE x

\* np.max(cells) of cells >= 0: nan if a cell is nan
NpMax(cells) ==
    IF \E i \in DOMAIN cells : cells[i].k = "nan" THEN NaN
    ELSE cells[CHOOSE i \in DOMAIN cells : \A j \in DOMAIN cells : FloatLeq(cells[j], cells[i])]

\* x / d in p bits for floats x >= 0 and d > 0, where d is a power of two or a
\* whole number: inf / inf is nan, and a nan on either side gives nan.
DivFloat(x, d, p) ==
    CASE x.k = "nan" \/ d.k = "nan" -> NaN
      [] d.k = "inf" -> IF x.k = "inf" THEN NaN ELSE Zero
      [] x.k \in {"zero", "inf"} -> x
      [] d.m = FromInt(1, p).m -> [x EXCEPT !.e = @ - (d.e - 1)]
      [] OTHER -> NpDivInt(x, ToInt(d), p)

\* Lines 135-136:
\*   heatmap = np.maximum(raw_heatmap, 0.0)
\*   heatmap /= np.max(heatmap) if np.max(heatmap) != 0 else EPSILON
PostProcess(raw, p) ==
    LET clipped == [i \in DOMAIN raw |-> Relu(raw[i])]
        top == NpMax(clipped)
        divisor == IF top.k # "zero" THEN top ELSE EPSILON(p)
    IN [i \in DOMAIN raw |-> DivFloat(clipped[i], divisor, p)]

\* The frame tables apply_gradcam is given: up to MaxRows rows.
GradcamTables ==
    {SubSeq(Reindex(TableRows(MaxRows, [q \in 1..MaxRows |-> 0])), 1, n) : n \in 0..MaxRows}

InitGradcam ==
    /\ cfg \in [MODE : {"plusplus", "normal", "other"},
                MODEL_DTYPE : {"float32", "float64"}]
    /\ frame_df \in GradcamTables
    /\ pc = "GradCAMExplainer"
    /\ entry = NoEntry /\ args = NoArgs /\ histogram = <<>>
    /\ Fresh /\ NoPlot /\ NoDataset /\ NoFramesTable

\* GradCAMExplainer.__init__, lines 25-43; the script goes on to its loop of
\* file dialogs (lines 172-174), another caller to apply_gradcam.
GradCAMExplainer ==
    /\ pc = "GradCAMExplainer"
    /\ heatmap_gen_fn' = get_heatmap_gen_fn(cfg.MODE)
    /\ pc' = IF entry.caller = "__main__" THEN "get_heatmap_for_frame" ELSE "apply_gradcam"
    /\ UNCHANGED <<cfg, frame_df, vizVars, dataVars, stack, error, entry, args, partVars, modelVars,
                   searchVars, cvVars, trace, idx, computed, raw_heatmap, heatmap,
                   figures, frames_table, file_path, prompts>>

\* The files the dialog of get_heatmap_for_frame can give, by base name: a
\* frame of the table, a file that is not in the table, and the empty string of
\* a dialog that was cancelled.
Selections(table) == {table[i].FramePath : i \in DOMAIN table} \cup {<<0, 0, 0>>, <<>>}

\* Line 163: the rows of the table whose Frame Path is the base name.
Filtered(table, basename) == SelectSeq(table, LAMBDA row : row.FramePath = basename)

\* get_heatmap_for_frame, lines 157-166, up to its call of apply_gradcam,
\* whose locals are unbound on entry.
get_heatmap_for_frame ==
    /\ pc = "get_heatmap_for_frame"
    /\ prompts < MaxPrompts
    /\ prompts' = prompts + 1
    /\ file_path' \in Selections(frames_table)
    /\ frame_df' = Filtered(frames_table, file_path')
    /\ idx' = 0 /\ computed' = <<>> /\ raw_heatmap' = NoHeatmap /\ heatmap' = <<>>
    /\ stack' = <<"get_heatmap_for_frame">> \o stack
    /\ pc' = "apply_gradcam"
    /\ UNCHANGED <<cfg, vizVars, dataVars, error, entry, args, partVars, modelVars,
                   searchVars, cvVars, trace, heatmap_gen_fn, figures, frames_table>>

\* One iteration of the loop of apply_gradcam, lines 120-146: the heatmap
\* function is called, its result clipped and normalised, the overlay rendered.
apply_gradcam_frame ==
    /\ pc = "apply_gradcam"
    /\ idx < Len(frame_df)
    /\ \E h \in RawHeatmaps(Precision(cfg.MODEL_DTYPE)) :
         \E raw \in {Returned(heatmap_gen_fn, h)} :
            IF heatmap_gen_fn = "None"
            THEN \* 'NoneType' object is not callable
                 /\ Raise("TypeError")
                 /\ UNCHANGED <<idx, computed, raw_heatmap, heatmap, figures>>
            ELSE /\ computed' = h
                 /\ raw_heatmap' = raw
                 /\ IF raw.isNone
                    THEN \* np.maximum(None, 0.0)
                         /\ Raise("TypeError")
                         /\ UNCHANGED <<idx, heatmap, figures>>
                    ELSE /\ heatmap' = PostProcess(raw.cells, Precision(cfg.MODEL_DTYPE))
                         /\ figures' = Append(figures, frame_df[idx + 1].idx)
                         /\ idx' = idx + 1
                         /\ UNCHANGED <<pc, error, stack>>
    /\ UNCHANGED <<cfg, frame_df, vizVars, dataVars, heatmap_gen_fn, entry, args, partVars, modelVars,
                   searchVars, cvVars, trace, frames_table, file_path, prompts>>

\* ReturnHeatmap with the heatmap bound before the loop.
ReturnHeatmap_bound(rows) == "none"

\* Line 147, 'return heatmap', after a loop over rows rows: the name is
\* unbound when the loop had no iteration.
ReturnHeatmap(rows) == IF rows = 0 THEN "UnboundLocalError" ELSE "none"

\* apply_gradcam, line 147; get_heatmap_for_frame returns what it returns
\* (line 167) to the loop of the script, which opens the next dialog.
apply_gradcam_return ==
    /\ pc = "apply_gradcam"
    /\ idx >= Len(frame_df)
    /\ IF ReturnHeatmap(Len(frame_df)) # "none"
       THEN Raise(ReturnHeatmap(Len(frame_df)))
       ELSE Return /\ UNCHANGED error
    /\ UNCHANGED <<cfg, frame_df, vizVars, dataVars, gradVars, entry, args, partVars, modelVars,
                   searchVars, cvVars, trace>>

NextGradcam ==
    \/ GradCAMExplainer
    \/ apply_gradcam_frame
    \/ apply_gradcam_return

SpecGradcam == InitGradcam /\ [][NextGradcam]_vars

\* The module run as a script, lines 171-174: the explainer, then one file
\* dialog after the other, up to MaxPrompts of them.
InitInteractive ==
    /\ cfg \in [MODE : {"plusplus", "normal", "other"},
                MODEL_DTYPE : {"float32", "float64"}]
    /\ frames_table \in GradcamTables
    /\ frame_df = EmptyDf
    /\ pc = "GradCAMExplainer"
    /\ entry = [NoEntry EXCEPT !.caller = "__main__"]
    /\ args = NoArgs /\ histogram = <<>>
    /\ Fresh /\ NoPlot /\ NoDataset

NextInteractive ==
    \/ GradCAMExplainer
    \/ get_heatmap_for_frame
    \/ apply_gradcam_frame
    \/ apply_gradcam_return

SpecInteractive == InitInteractive /\ [][NextInteractive]_vars


\* ------------------------------------------------------------------ claims
At(op, m) == {i \in DOMAIN trace : trace[i].op = op /\ trace[i].m = m}
Called(op) == {i \in DOMAIN trace : trace[i].op = op}

\* The rows of a frame-level partition that come from row i of the table.
Copies(df, i) == Cardinality({j \in DOMAIN df : df[j].idx = i})

\* partition_dataset has returned to train_single.
PartitionReturned ==
    /\ entry.experiment \in {"single_train", "hparam_search"}
    /\ Called("partition_dataset") # {}

\* C1: whenever partition_dataset returns, the patient sets of the train,
\* validation and test partitions are pairwise disjoint and every row of the
\* frame table is in exactly one of the three frame-level partitions.
C1_NoLeakage ==
    PartitionReturned =>
        /\ Unique(train_df) \cap Unique(val_df) = {}
        /\ Unique(train_df) \cap Unique(test_df) = {}
        /\ Unique(val_df) \cap Unique(test_df) = {}
        /\ \A i \in DOMAIN frame_df :
              Copies(train_df, i) + Copies(val_df, i) + Copies(test_df, i) = 1
        /\ \A j \in DOMAIN train_df : train_df[j].Patient = frame_df[train_df[j].idx].Patient
        /\ \A j \in DOMAIN val_df : val_df[j].Patient = frame_df[val_df[j].idx].Patient
        /\ \A j \in DOMAIN test_df : test_df[j].Patient = frame_df[test_df[j].idx].Patient

\* A partition of four patients into two, one and one has been returned.
C1_Witness ==
    /\ PartitionReturned
    /\ pc = "train_single_train"
    /\ Cardinality(Unique(train_df)) = 2
    /\ Cardinality(Unique(val_df)) = 1
    /\ Cardinality(Unique(test_df)) = 1
    /\ Len(train_df) + Len(val_df) + Len(test_df) = Len(frame_df)

\* C2: in cross_validation the train, validation and test patients of every
\* fold are pairwise disjoint and together are all the patients; the test
\* sets of the folds are pairwise disjoint and, once all N_FOLDS folds are
\* done, every patient is in the test set of exactly one fold.
C2_FoldPartition ==
    entry.experiment = "cross_validation" =>
        /\ \A f \in DOMAIN fold_pts :
              /\ fold_pts[f].train \cap fold_pts[f].val = {}
              /\ fold_pts[f].train \cap fold_pts[f].test = {}
              /\ fold_pts[f].val \cap fold_pts[f].test = {}
              /\ fold_pts[f].train \cup fold_pts[f].val \cup fold_pts[f].test
                    = Unique(frame_df)
        /\ \A f, g \in DOMAIN fold_pts :
              f # g => fold_pts[f].test \cap fold_pts[g].test = {}
        /\ Len(fold_pts) = cfg.N_FOLDS =>
              \A p \in Unique(frame_df) :
                  Cardinality({f \in DOMAIN fold_pts : p \in fold_pts[f].test}) = 1

\* All the folds of a cross-validation are done.
C2_Witness ==
    /\ entry.experiment = "cross_validation"
    /\ pc = "done"
    /\ Len(fold_pts) = cfg.N_FOLDS
    /\ \A f \in DOMAIN fold_pts : fold_pts[f].train # {} /\ fold_pts[f].val # {}

\* train_experiment has run.
Dispatched == pc \notin {"__main__", "train_experiment"}

Modes == {"train_single", "bayesian_hparam_optimization", "cross_validation"}

\* C3: train_experiment with a name outside the three experiments raises and
\* calls none of the three modes (nothing is partitioned, no model trained);
\* with a name of the three it calls the matching mode and no other
\* (train_single is called again only by the trials of the search).
C3_Dispatch ==
    Dispatched =>
        IF entry.experiment \notin Experiments
        THEN /\ pc = "raised" /\ error = "Exception"
             /\ trace = <<>> /\ n_models = 0
             /\ train_pts = {} /\ ~partition_dir.exists
        ELSE /\ trace # <<>>
             /\ trace[1].op =
                  (CASE entry.experiment = "single_train" -> "train_single"
                     [] entry.experiment = "hparam_search" -> "bayesian_hparam_optimization"
                     [] entry.experiment = "cross_validation" -> "cross_validation")
             /\ \A i \in DOMAIN trace :
                  i > 1 /\ trace[i].op \in Modes =>
                      entry.experiment = "hparam_search" /\ trace[i].op = "train_single"

\* An unknown experiment name has been refused.
C3_Witness ==
    /\ Dispatched
    /\ entry.experiment \notin Experiments
    /\ error = "Exception"

\* The calls that are stages of a run, in the order the code makes them.
StageOrder ==
    <<"partition_dataset", "model_def", "fit", "save_model", "evaluate",
      "log_test_results", "train_model_return">>

\* The order of the state machine Partitioned, Constructed, Fitting, Evaluated,
\* Persisted, Logged, Done.
ClaimedOrder ==
    <<"partition_dataset", "model_def", "fit", "evaluate", "save_model",
      "log_test_results", "train_model_return">>

Place(order, op) == CHOOSE k \in DOMAIN order : order[k] = op

\* The stages of each run occur in the given order, none twice.
InOrder(order) ==
    \A i, j \in DOMAIN trace :
        (i < j /\ trace[i].m = trace[j].m
           /\ trace[i].op \in Range(order) /\ trace[j].op \in Range(order))
        => Place(order, trace[i].op) < Place(order, trace[j].op)

\* The original statement of C4: the stages of a run occur in the order
\* partition, construction, fit, evaluation, save, log, return.
C4_Original == InOrder(ClaimedOrder)

\* C4 (amended): the stages of every run occur in the order partition,
\* construction, fit, save of the model (only with save_weights), evaluation
\* of the test set, logging of the test results (only with a log directory),
\* return; no stage occurs twice in a run.
C4_StageOrder ==
    /\ InOrder(StageOrder)
    /\ \A m \in 1..n_models :
          /\ At("save_model", m) # {} => args.save_weights
          /\ At("log_test_results", m) # {} => args.write_logs
          /\ At("train_model_return", m) # {} =>
                /\ At("model_def", m) # {} /\ At("fit", m) # {} /\ At("evaluate", m) # {}
                /\ args.save_weights => At("save_model", m) # {}
                /\ args.write_logs => At("log_test_results", m) # {}
          /\ (entry.experiment # "cross_validation" /\ At("model_def", m) # {})
                => At("partition_dataset", m) # {}

\* A single training that saved its model and logged its test results is done.
C4_Witness ==
    /\ entry.experiment = "single_train"
    /\ pc = "done"
    /\ At("save_model", 1) # {} /\ At("evaluate", 1) # {}
    /\ At("log_test_results", 1) # {}


\* The columns of a results table, as a list.
Columns(t) == <<t.Trial, t.metric>> \o [i \in DOMAIN HparamList |->
                  IF HparamList[i] \in DOMAIN t.hp THEN t.hp[HparamList[i]] ELSE <<>>]

IsPrefix(a, b) == Len(a) <= Len(b) /\ SubSeq(b, 1, Len(a)) = a

\* The results file holds one row per call of save_hparam_search_results so
\* far, with the trial indices 0, 1, ... in order.
OneRowPerCall ==
    LET k == Cardinality(Called("save_hparam_search_results"))
    IN /\ results_file.exists <=> k > 0
       /\ results_file.exists =>
             /\ Len(results_file.rows.Trial) = k
             /\ Len(results_file.rows.metric) = k
             /\ DOMAIN results_file.rows.hp = Range(hparam_names)
             /\ \A h \in DOMAIN results_file.rows.hp : Len(results_file.rows.hp[h]) = k
             /\ \A i \in 1..k : results_file.rows.Trial[i] = Cell("text", i - 1)

\* A step keeps every row of the file as it is, and a call appends the row
\* of its trial: the metric 1 - score and the sampled values.
RowsKept ==
    results_file.exists =>
        /\ results_file'.exists
        /\ \A c \in DOMAIN Columns(results_file.rows) :
              IsPrefix(Columns(results_file.rows)[c], Columns(results_file'.rows)[c])

RowAppended ==
    Len(trace') > Len(trace) /\ trace'[Len(trace')].op = "save_hparam_search_results" =>
        LET new == results_file'.rows
            k == Len(new.Trial)
        IN /\ k = (IF results_file.exists THEN Len(results_file.rows.Trial) ELSE 0) + 1
           /\ new.metric[k] = Cell("text", test_metrics)
           /\ \A h \in Range(hparam_names) : new.hp[h][k] = Cell("text", hparams[h])

\* C5: after k calls of save_hparam_search_results for one model name and
\* search timestamp, starting without a results file, the file holds k rows,
\* one per call in call order, with the trial indices 0..k-1; no call
\* overwrites, drops or alters a row written by an earlier call.
C5_Additive == [](OneRowPerCall) /\ [][RowsKept /\ RowAppended]_vars

\* Two trials with different results have been saved.
C5_Witness ==
    /\ Cardinality(Called("save_hparam_search_results")) = 2
    /\ Len(results_file.rows.metric) = 2
    /\ results_file.rows.metric[1] # results_file.rows.metric[2]
    /\ hparam_names # <<>>

\* The original statement of C6: whenever a class count of the histogram is
\* zero, get_class_weights returns no weight mapping and train_model stops
\* before the model is constructed.
C6_DegenerateHistogramIsFatal ==
    (\E i \in DOMAIN histogram : histogram[i] = 0) =>
        /\ class_weight = <<>>
        /\ At("model_def", n_models) = {}
        /\ At("fit", n_models) = {}

Saved(m) == At("save_model", m) # {}
Logged(m) == At("TensorBoard", m) # {} /\ At("log_test_results", m) # {}
Trained(m) == At("fit", m) # {}

Quotient(a, b) == NpDivInt(FromInt(a, Double), b, Double)

\* 1.0, 0.625 and 2.5 are 2^52 * 2^-52, 5 * 2^50 * 2^-53 and 5 * 2^50 * 2^-51.
One == [k |-> "pos", m |-> <<16, 0, 0, 0>>, e |-> 1]
Float0625 == [k |-> "pos", m |-> <<20, 0, 0, 0>>, e |-> 0]
Float25 == [k |-> "pos", m |-> <<20, 0, 0, 0>>, e |-> 2]
\* 0.9999999999999999, the float before 1.0: (2^53 - 1) * 2^-53
BeforeOne == [k |-> "pos", m |-> <<31, 65535, 65535, 65535>>, e |-> 0]

\* The float after x > 0.
Succ(x) ==
    LET inc == Strip(MulAdd(x.m, 1, 1))
    IN IF BitsOf(inc) > BitsOf(x.m)
       THEN [x EXCEPT !.m = Strip(DivRem(inc, 2).q), !.e = @ + 1]
       ELSE [x EXCEPT !.m = inc]

\* x and y are the same float or neighbours.
Near(x, y) ==
    /\ x.k = "pos" /\ y.k = "pos"
    /\ x = y \/ Succ(x) = y \/ Succ(y) = x

Positive(h) == Len(h) >= 1 /\ \A i \in DOMAIN h : h[i] > 0
Equal(h) == \A i, j \in DOMAIN h : h[i] = h[j]

\* The float of total_count / (n * count[i]).
Exact(h, i) == Quotient(SumSeq(h), Len(h) * h[i])

\* get_class_weights returned a mapping with the keys 0..n-1 (entries 1..n
\* here), and for [80, 20] it is {0: 0.625, 1: 2.5}.
KeysAndExample ==
    /\ pc = "done" /\ error = "none"
    /\ DOMAIN class_weight = 1..Len(histogram)
    /\ histogram = <<80, 20>> =>
          class_weight = <<Float0625, Float25>>

OneOf(p) == IF p = Double THEN One ELSE [k |-> "pos", m |-> <<128, 0>>, e |-> 1]

\* 0 <= x <= 1
InUnit(x, p) == x.k = "zero" \/ (x.k = "pos" /\ FloatLeq(x, OneOf(p)))

\* apply_gradcam has post-processed the raw heatmap of a frame.
PostProcessed == pc \in {"apply_gradcam", "done"} /\ heatmap # <<>>

Cells(kinds) == {i \in DOMAIN raw_heatmap.cells : raw_heatmap.cells[i].k \in kinds}
\* The maximum of the raw heatmap is 0, or above 0.
RawMaxZero == Cells({"nan", "pos", "inf"}) = {} /\ Cells({"zero"}) # {}
RawMaxPositive == Cells({"nan"}) = {} /\ Cells({"pos", "inf"}) # {}

\* C8 as stated: for every raw heatmap the post-processed values are all
\* within [0, 1]; the maximum is exactly 1.0 whenever the raw maximum is
\* non-zero; and when it is 0 no division error occurs.
C8_Original ==
    PostProcessed =>
        /\ \A i \in DOMAIN heatmap : InUnit(heatmap[i], Precision(cfg.MODEL_DTYPE))
        /\ ~RawMaxZero =>
              \E i \in DOMAIN heatmap : heatmap[i] = OneOf(Precision(cfg.MODEL_DTYPE))
        /\ RawMaxZero => error = "none"

\* C8: for a raw heatmap without nan and +inf the post-processed values are
\* all within [0, 1]; the maximum is exactly 1.0 when the raw maximum is above
\* 0; when it is 0 or below, every value is 0 and no division error occurs,
\* the divisor being EPSILON.  A nan cell makes every value nan, and a +inf
\* cell makes a value nan.
C8_PostProcessing ==
    PostProcessed =>
        /\ error = "none"
        /\ Cells({"nan", "inf"}) = {} =>
              /\ \A i \in DOMAIN heatmap :
                    InUnit(heatmap[i], Precision(cfg.MODEL_DTYPE))
              /\ RawMaxPositive =>
                    \E i \in DOMAIN heatmap :
                       heatmap[i] = OneOf(Precision(cfg.MODEL_DTYPE))
              /\ ~RawMaxPositive => \A i \in DOMAIN heatmap : heatmap[i] = Zero
        /\ Cells({"nan"}) # {} => \A i \in DOMAIN heatmap : heatmap[i] = NaN
        /\ Cells({"inf"}) # {} => \E i \in DOMAIN heatmap : heatmap[i] = NaN

\* A raw heatmap with a negative and a positive cell has been post-processed.
C8_Witness ==
    /\ PostProcessed
    /\ \E i, j \in DOMAIN heatmap :
          /\ raw_heatmap.cells[i].k = "neg" /\ heatmap[i] = Zero
          /\ raw_heatmap.cells[j].k = "pos"
          /\ heatmap[j] = OneOf(Precision(cfg.MODEL_DTYPE))

\* C9 as stated: in 'normal' mode get_gradcam_heatmap returns the heatmap it
\* computed, and apply_gradcam renders one overlay per row of the frame table.
C9_NormalModeRenders ==
    (cfg.MODE = "normal" /\ Len(frame_df) >= 1 /\ pc \in {"done", "raised"}) =>
        /\ raw_heatmap = [isNone |-> FALSE, cells |-> computed]
        /\ error = "none"
        /\ Len(figures) = Len(frame_df)

\* ---------------------------------------------------- plot_confusion_matrix
\* src/src/visualization/visualization.py, lines 66-104, on its own.
\* The prediction scores considered, in hundredths: those of the
\* documentation, 0.1, 0.4, 0.6 and 0.9, and the half-way score 0.5.
Scores == {10, 40, 50, 60, 90}

\* np.round of a score in hundredths: the nearest integer, the even one of
\* the two when the score is half-way between them.
NpRound(s) ==
    LET q == s \div 100
        r == s % 100
    IN IF 2 * r < 100 THEN q
       ELSE IF 2 * r > 100 THEN q + 1
       ELSE IF q % 2 = 0 THEN q ELSE q + 1

\* The elements of a set of numbers in increasing order.
Sorted(S) ==
    CHOOSE s \in [1..Cardinality(S) -> S] :
        \A i, j \in 1..Cardinality(S) : i < j => s[i] < s[j]

\* sklearn's confusion_matrix(y_true, y_pred) without its labels argument:
\* the classes are the values found in y_true or y_pred, in increasing
\* order, and cell (i, j) counts the examples of the i-th of these classes
\* predicted as the j-th.
confusion_matrix(y_true, y_pred) ==
    LET classes == Sorted(Range(y_true) \cup Range(y_pred))
    IN [i \in DOMAIN classes |->
          [j \in DOMAIN classes |->
              Cardinality({k \in DOMAIN y_true :
                              y_true[k] = classes[i] /\ y_pred[k] = classes[j]})]]

\* The calls of plot_confusion_matrix considered: up to MaxExamples examples
\* of the two classes, each with a score.
InitConfusion ==
    /\ cfg = NoCfg /\ frame_df = EmptyDf /\ entry = NoEntry /\ args = NoArgs
    /\ histogram = <<>>
    /\ pc = "plot_confusion_matrix"
    /\ Fresh
    /\ \E n \in 1..MaxExamples :
          /\ labels \in [1..n -> {0, 1}]
          /\ predictions \in [1..n -> Scores]
    /\ cm = <<>>
    /\ NoDataset /\ NoFramesTable

\* plot_confusion_matrix(labels, predictions, class_name_list), lines 74-104
plot_confusion_matrix ==
    /\ pc = "plot_confusion_matrix"
    /\ cm' = confusion_matrix(labels, [k \in DOMAIN predictions |-> NpRound(predictions[k])])
    /\ trace' = Append(trace, Ev("plot_confusion_matrix", 0))
    /\ pc' = "done"
    /\ UNCHANGED <<cfg, frame_df, stack, error, entry, args, partVars, modelVars,
                   searchVars, cvVars, gradVars, dataVars, labels, predictions>>

NextConfusion == plot_confusion_matrix

SpecConfusion == InitConfusion /\ [][NextConfusion]_vars

\* ------------------------------------------------------ Preprocessor.prepare
\* src/src/data/preprocessor.py, lines 31-61, on its own.  An element of a
\* dataset is a pair of an image, known by the file it was read from and the
\* transformations applied to it, and a label.
\* The orders of the elements ds.shuffle(len(ds)) can give: all of them.
Orders(n) == {f \in [1..n -> 1..n] : \A i, j \in 1..n : i # j => f[i] # f[j]}

\* ds.map(fn): fn on every element, the elements in their order
\* (num_parallel_calls leaves the order deterministic).
Map(dataset, fn(_)) == [i \in DOMAIN dataset |-> fn(dataset[i])]

\* _parse_fn, lines 64-74: the file read, decoded and resized, and the label.
parse_fn(element) ==
    [image |-> [file |-> element.filename, ops |-> <<"resize">>], label |-> element.label]

\* Batch dropping a final batch shorter than batch_size.
Batch_drop_remainder(dataset, batch_size) ==
    [b \in 1..(Len(dataset) \div batch_size) |->
        SubSeq(dataset, (b - 1) * batch_size + 1, b * batch_size)]

\* ds.batch(batch_size), line 48: consecutive elements in groups of
\* batch_size, the remainder (drop_remainder is not set) in a last group.
Batch(dataset, batch_size) ==
    [b \in 1..CeilDiv(Len(dataset), batch_size) |->
        SubSeq(dataset, (b - 1) * batch_size + 1,
               IF b * batch_size < Len(dataset) THEN b * batch_size ELSE Len(dataset))]

\* A transformation of the images of a batch; the labels pass through.
OnImages(batch, op) ==
    [i \in DOMAIN batch |->
        [batch[i] EXCEPT !.image = [@ EXCEPT !.ops = Append(@, op)]]]

\* Lines 52 and 56-58: the maps over the batches.
Augmented(batch) == OnImages(batch, "data_augmentation")
Scaled(batch) == OnImages(batch, "input_scaler")

\* The calls of prepare in train_model, lines 174-176.
PrepareCalls ==
    {[set |-> "train", shuffle |-> TRUE, augment |-> TRUE],
     [set |-> "val", shuffle |-> FALSE, augment |-> FALSE],
     [set |-> "test", shuffle |-> FALSE, augment |-> FALSE]}

\* The calls of prepare considered: those of train_model and every other
\* setting of the two flags, on datasets of up to MaxItems files.
InitPrepare ==
    /\ cfg \in [BATCH_SIZE : 1..MaxBatch]
    /\ frame_df = EmptyDf /\ entry = NoEntry
    /\ args \in PrepareCalls \cup [set : {"none"}, shuffle : BOOLEAN, augment : BOOLEAN]
    /\ histogram = <<>>
    /\ pc = "prepare"
    /\ Fresh /\ NoPlot /\ NoFramesTable
    /\ \E n \in 0..MaxItems :
          ds \in {[i \in 1..n |-> [filename |-> i, label |-> l[i]]] : l \in [1..n -> {0, 1}]}
    /\ prepared = <<>>

\* prepare(ds, shuffle, augment), lines 41-61
prepare ==
    /\ pc = "prepare"
    /\ \E order \in IF args.shuffle THEN Orders(Len(ds))
                     ELSE {[i \in DOMAIN ds |-> i]} :
          LET shuffled == [i \in DOMAIN ds |-> ds[order[i]]]
              batches == Batch(Map(shuffled, parse_fn), cfg.BATCH_SIZE)
              augmented == IF args.augment THEN Map(batches, Augmented) ELSE batches
          IN prepared' = Map(augmented, Scaled)
    /\ trace' = Append(trace, Ev("prepare", 0))
    /\ pc' = "done"
    /\ UNCHANGED <<cfg, frame_df, stack, error, entry, args, partVars, modelVars,
                   searchVars, cvVars, gradVars, vizVars, ds>>

NextPrepare == prepare

SpecPrepare == InitPrepare /\ [][NextPrepare]_vars

\* ------------------------------------------------- the results table (C11, C12)
\* cross_validation has returned its table.
CrossValidated ==
    entry.experiment = "cross_validation" /\ pc = "done" /\ Called("metrics_df_to_csv") # {}

\* Two cells hold the same number.
SameNumber(a, b) == a.t = b.t /\ a.t \in {"float", "sqrt"} /\ a.num * b.den = b.num * a.den

\* The values of the fold rows of a column: rows 0 .. N_FOLDS - 1.
FoldValues(c) == [i \in 1..cfg.N_FOLDS |-> metrics_df[c][i].num]

\* The arithmetic mean of xs, and their standard deviation about it with the
\* divisor n - 1: the root of (n * sum of squares - square of the sum) over
\* n * (n - 1).
ArithmeticMean(xs) == Float(SumSeq(xs), Len(xs))
SampleStd(xs) ==
    Sqrt(Len(xs) * SumSeq([i \in DOMAIN xs |-> xs[i] * xs[i]]) - SumSeq(xs) * SumSeq(xs),
         Len(xs) * (Len(xs) - 1))

\* The scalar half of C11: the 'mean' and 'std' rows of every scalar metric
\* column are the mean and the sample standard deviation of the fold rows.
ScalarSummary ==
    \A c \in Range(Metrics) \ {"f1score"} :
        /\ SameNumber(metrics_df[c][cfg.N_FOLDS + 1], ArithmeticMean(FoldValues(c)))
        /\ SameNumber(metrics_df[c][cfg.N_FOLDS + 2], SampleStd(FoldValues(c)))

\* C11 as stated: after all folds of cross_validation, for every scalar metric
\* column the 'mean' row is the arithmetic mean of the N_FOLDS fold rows and
\* the 'std' row their sample standard deviation, and the 'std' entry of the
\* f1score column is a vector with one element per class.
C11_SummaryRows ==
    CrossValidated =>
        /\ ScalarSummary
        /\ metrics_df["f1score"][cfg.N_FOLDS + 2].t = "vector"
        /\ Len(metrics_df["f1score"][cfg.N_FOLDS + 2].cells) = Len(CLASSES)

\* The metric that a column of the table is named after.
MetricOf(c) ==
    CASE c \in {"accuracy", "auc", "f1score"} -> c
      [] c \in {"precision_" \o CLASSES[i] : i \in DOMAIN CLASSES} -> "precision"
      [] c \in {"recall_" \o CLASSES[i] : i \in DOMAIN CLASSES} -> "recall"

\* Column c, row i (from 0) holds the value of its metric in test_metrics.
HoldsTestValue(df, c, i, metrics) ==
    /\ MetricOf(c) \in DOMAIN metrics
    /\ df[c][i + 1] = Float(metrics[MetricOf(c)], 1)

\* C12 as stated: the table cross_validation returns has exactly N_FOLDS + 2
\* rows, and every fold writes the test-set value of every metric column, as
\* train_model produced it for that fold, to the row of the fold, where it
\* stays.
C12_FoldRows ==
    [][/\ (pc = "cv_fold" /\ cur_fold' = cur_fold + 1) =>
             \A c \in Range(Metrics) :
                HoldsTestValue(metrics_df', c, cur_fold, Evaluate(test_metrics'))
       /\ (pc = "cv_fold" /\ pc' # "raised") =>
             \A c \in DOMAIN metrics_df :
                /\ Len(metrics_df'[c]) = cfg.N_FOLDS + 2
                /\ \A i \in 1..cur_fold : metrics_df'[c][i] = metrics_df[c][i]]_vars

\* ---------------------------------------------- the confusion matrix (C13)
\* The examples of ground-truth label i whose score rounds to j.
Examples(i, j) ==
    {k \in DOMAIN labels : labels[k] = i /\ NpRound(predictions[k]) = j}

\* Every score of class 0 is below 0.5 and every score of class 1 above it.
Separated ==
    \A k \in DOMAIN labels : IF labels[k] = 0 THEN predictions[k] < 50 ELSE predictions[k] > 50

\* C13 as stated: every cell (i, j) of the matrix plot_confusion_matrix
\* computes is the number of examples of ground-truth label i whose score
\* rounds to j, the cells sum to the number of examples, and with every
\* class-0 score below 0.5 and every class-1 score above 0.5 the off-diagonal
\* cells are zero.
C13_ConfusionMatrix ==
    pc = "done" =>
        /\ \A i \in DOMAIN cm : \A j \in DOMAIN cm[i] :
              cm[i][j] = Cardinality(Examples(i - 1, j - 1))
        /\ SumSeq([i \in DOMAIN cm |-> SumSeq(cm[i])]) = Len(labels)
        /\ Separated => \A i \in DOMAIN cm : \A j \in DOMAIN cm[i] : i # j => cm[i][j] = 0

\* ------------------------------------------------- the prepared dataset (C14)
\* The elements of the batches, one after the other.
RECURSIVE Flatten(_)
Flatten(batches) ==
    IF batches = <<>> THEN <<>> ELSE Head(batches) \o Flatten(Tail(batches))

Prepared == pc = "done" /\ Called("prepare") # {}

\* C14: prepare without shuffling, with or without augmentation, emits every
\* (image, label) pair once and in the input order, the label unchanged and
\* with the image of its own file, in batches of exactly BATCH_SIZE but for a
\* shorter last batch that is kept; and train_model prepares the validation
\* and test sets without shuffling.
C14_OrderPreserved ==
    /\ \A c \in PrepareCalls : c.set \in {"val", "test"} => ~c.shuffle
    /\ (Prepared /\ ~args.shuffle) =>
          /\ Len(Flatten(prepared)) = Len(ds)
          /\ \A i \in DOMAIN ds :
                /\ Flatten(prepared)[i].label = ds[i].label
                /\ Flatten(prepared)[i].image.file = ds[i].filename
          /\ Len(prepared) = CeilDiv(Len(ds), cfg.BATCH_SIZE)
          /\ \A b \in DOMAIN prepared :
                /\ b < Len(prepared) => Len(prepared[b]) = cfg.BATCH_SIZE
                /\ Len(prepared[b]) \in 1..cfg.BATCH_SIZE

\* An unshuffled, augmented dataset of both labels has been prepared into
\* more than one batch, the last one shorter.
C14_Witness ==
    /\ Prepared /\ ~args.shuffle /\ args.augment
    /\ Len(prepared) > 1
    /\ Len(prepared[Len(prepared)]) < cfg.BATCH_SIZE
    /\ {ds[i].label : i \in DOMAIN ds} = {0, 1}

\* -------------------------------------------- the interactive loop (C15)
\* The file selected in the dialog in progress matches no row of the table.
NoMatch ==
    /\ entry.caller = "__main__"
    /\ prompts > 0
    /\ \A i \in DOMAIN frames_table : frames_table[i].FramePath # file_path

\* C15: when the file chosen in get_heatmap_for_frame, the empty selection of
\* a cancelled dialog included, matches no row of the frame table, the call
\* ends in an error that nothing catches: the only step from there raises,
\* with no heatmap returned and no overlay rendered, and once the error is
\* raised no further dialog is opened.
C15_NoMatchIsFatal ==
    [][/\ (NoMatch /\ pc = "apply_gradcam") =>
             /\ pc' = "raised" /\ error' # "none"
             /\ heatmap' = <<>> /\ figures' = figures /\ prompts' = prompts
       /\ NoMatch' => pc' \in {"apply_gradcam", "raised"}
       /\ pc # "raised"]_vars

\* After an overlay for a frame of the table, a second dialog was cancelled
\* and the error ended the loop with a dialog still to open.
C15_Witness ==
    /\ NoMatch /\ file_path = <<>>
    /\ pc = "raised" /\ error = "UnboundLocalError"
    /\ Len(figures) = 1 /\ prompts = 2 /\ prompts < MaxPrompts
    /\ heatmap = <<>>

\* ------------------------------------------ the hyperparameters of a trial (C16)
\* objective has called train_single with the mapping hparams.
TrialRunning ==
    /\ entry.experiment = "hparam_search"
    /\ Called("train_single") # {}
    /\ pc \notin {"objective", "raised", "done"}

\* The dimension built for hyperparameter h.
DimensionFor(h) == {i \in DOMAIN dimensions : dimensions[i].name = h}

\* C16 as stated: in every trial the mapping passed to train_single holds
\* every hyperparameter of HPARAMS[<model>]; one with a RANGE has the value
\* sampled for its own dimension, one without has its configured default and
\* no dimension.
C16_TrialHparams ==
    TrialRunning =>
        /\ DOMAIN hparams = DOMAIN cfg.HPARAMS
        /\ \A h \in DOMAIN cfg.HPARAMS :
              IF cfg.RANGE[h]
              THEN \E i \in DimensionFor(h) : hparams[h] \in Sampled(dimensions[i])
              ELSE hparams[h] = cfg.HPARAMS[h] /\ DimensionFor(h) = {}

\* ------------------------------------------- partition_dataset on its own
\* partition_dataset(val_split, test_split, save_dfs) called with fractions
\* other than the configured ones, on larger frame tables and on frame paths
\* of every shape.
SplitValues == {0, 1, 2, 5}
SplitTests == {2, 3, 5, 10}

\* n patients with one frame each.
PatientTable(n) == [p \in 1..n |-> Row(p, p, 1, 1, 0)]

\* Three patients whose frame paths have three segments, two, or one (no
\* underscore at all); the frames of a clip differ in their Class, and the
\* rows of a clip are not in the order of their frame numbers.
PathRows ==
    <<[Patient |-> 1, FramePath |-> <<1, 1, 2>>, Class |-> 1],
      [Patient |-> 1, FramePath |-> <<1, 2, 1>>, Class |-> 0],
      [Patient |-> 1, FramePath |-> <<1, 1, 1>>, Class |-> 0],
      [Patient |-> 2, FramePath |-> <<2, 1>>, Class |-> 1],
      [Patient |-> 2, FramePath |-> <<2>>, Class |-> 0],
      [Patient |-> 2, FramePath |-> <<2, 1, 1>>, Class |-> 0],
      [Patient |-> 3, FramePath |-> <<3, 1, 1>>, Class |-> 1],
      [Patient |-> 3, FramePath |-> <<3, 1, 2>>, Class |-> 0]>>

PathTable(rows) ==
    [i \in DOMAIN rows |->
        [idx |-> i, Patient |-> rows[i].Patient, FramePath |-> rows[i].FramePath,
         Class |-> rows[i].Class]]

Reversed(rows) == [i \in DOMAIN rows |-> rows[Len(rows) + 1 - i]]

PartitionTables ==
    {PatientTable(n) : n \in 1..MaxPatients}
        \cup {PathTable(PathRows), PathTable(Reversed(PathRows))}

InitPartition ==
    /\ cfg \in [VAL_SPLIT : SplitValues, TEST_SPLIT : SplitTests]
    /\ frame_df \in PartitionTables
    /\ pc = "partition_dataset"
    /\ entry = NoEntry /\ histogram = <<>>
    /\ args \in [save_dfs : BOOLEAN]
    /\ Fresh /\ NoPlot /\ NoDataset /\ NoFramesTable

\* train_df, val_df, test_df = partition_dataset(val_split, test_split, save_dfs)
CallPartitionDataset ==
    /\ pc = "partition_dataset"
    /\ partition_dataset(cfg.VAL_SPLIT, cfg.TEST_SPLIT, args.save_dfs, "done")
    /\ UNCHANGED <<cfg, frame_df, vizVars, dataVars, gradVars, entry, args, modelVars,
                   searchVars, cvVars>>

NextPartition == CallPartitionDataset

SpecPartition == InitPartition /\ [][NextPartition]_vars

\* ------------------------------------------- the relative validation split (C17)
Partitioned == pc = "done" /\ error = "none" /\ train_pts # {}

\* C17: when partition_dataset has split the patients with
\* val_split + test_split < 1, the validation patients are
\* ceil(relative_val_split * remaining patients) of the patients the test
\* split left, relative_val_split being val_split / (1 - test_split), and their
\* number differs from val_split times the number of all patients by less
\* than one patient (in tenths of a patient: by less than 10).
C17_RelativeSplit ==
    Partitioned /\ cfg.VAL_SPLIT + cfg.TEST_SPLIT < 10 =>
        LET n == Cardinality(Unique(frame_df))
            n_val == Cardinality(val_pts)
            rel == relative_val_split(Tenths(cfg.VAL_SPLIT), Tenths(cfg.TEST_SPLIT))
        IN /\ val_pts \subseteq Unique(frame_df) \ test_pts
           /\ n_val = NTest(rel, n - Cardinality(test_pts))
           /\ 10 * n_val - cfg.VAL_SPLIT * n < 10
           /\ cfg.VAL_SPLIT * n - 10 * n_val < 10

\* ------------------------------------------------------ the Clip column (C18)
\* The frame rows of each partition and the clip-level table saved for it.
PartitionSaved == Partitioned /\ partition_dir.exists

Parts ==
    {[frames |-> train_df, clips |-> partition_dir.train_set_clips],
     [frames |-> val_df, clips |-> partition_dir.val_set_clips],
     [frames |-> test_df, clips |-> partition_dir.test_set_clips]}

\* The path without its final underscore-delimited segment.
Prefix(path) == SubSeq(path, 1, Len(path) - 1)

\* What stands for the clip of a path: its prefix, and the whole path when it
\* holds no underscore.
ClipOf(path) == IF Len(path) > 1 THEN Prefix(path) ELSE path

\* The clip-level table holds exactly one row per distinct Clip value of the
\* frame rows, with the columns of the first frame row of that clip.
OneRowPerClip(part) ==
    /\ {part.clips[k].filename : k \in DOMAIN part.clips}
          = {part.frames[i].Clip : i \in DOMAIN part.frames}
    /\ \A k, l \in DOMAIN part.clips :
          part.clips[k].filename = part.clips[l].filename => k = l
    /\ \A k \in DOMAIN part.clips :
          \E i \in DOMAIN part.frames :
             /\ part.frames[i].Clip = part.clips[k].filename
             /\ \A j \in 1..(i - 1) : part.frames[j].Clip # part.clips[k].filename
             /\ part.clips[k].Patient = part.frames[i].Patient
             /\ part.clips[k].Class = part.frames[i].Class

Calls_of(op) == {i \in DOMAIN trace : trace[i].op = op}

\* Between the evaluation of the model constructed at place i of the trace and
\* place j, op was called.
CalledBetween(op, i, j) ==
    \E e \in Calls_of("evaluate"), k \in Calls_of(op) : i < e /\ e < k /\ k < j

\* C19: in the hyperparameter search and in cross-validation, between the end
\* of one model's training and evaluation and the construction of the next
\* model the session state is cleared and the garbage is collected: no two
\* models are constructed without both in between.
C19_CleanUpBetweenModels ==
    \A i, j \in Calls_of("model_def") :
        i < j => CalledBetween("clear_session", i, j) /\ CalledBetween("gc_collect", i, j)

\* ------------------------------------------------- the Grad-CAM mode (C20)
\* C20: a MODE outside {normal, plusplus} is fatal where the heatmap strategy
\* is selected: once the construction of GradCAMExplainer has been attempted
\* with such a mode the process has ended in an error, and no explainer exists
\* whose heatmap-generation strategy is absent.
C20_ModeFatal ==
    /\ cfg.MODE \notin {"normal", "plusplus"} /\ pc # "GradCAMExplainer" => pc = "raised"
    /\ pc \notin {"GradCAMExplainer", "raised"} => heatmap_gen_fn # "None"

\* ------------------------------- dimensions and searched names aligned (C21)
\* bayesian_hparam_optimization has built its two lists (lines 295-317).
SearchSetUp ==
    /\ entry.experiment = "hparam_search"
    /\ pc \notin {"__main__", "train_experiment", "bayesian_hparam_optimization"}

\* C21 as stated: the list of search dimensions and the list of searched
\* hyperparameter names have the same length and the same order, whatever
\* the TYPE of an entry with a RANGE, and in every trial the value sampled
\* for the i-th dimension is the value of the hyperparameter that dimension
\* was built for.
C21_DimensionsAligned ==
    /\ SearchSetUp =>
          /\ Len(dimensions) = Len(hparam_names)
          /\ \A i \in DOMAIN dimensions : dimensions[i].name = hparam_names[i]
    /\ TrialRunning =>
          \A i \in DOMAIN dimensions :
             /\ dimensions[i].name \in DOMAIN hparams
             /\ hparams[dimensions[i].name] \in Sampled(dimensions[i])

\* ------------------------------------ train_single called again and again
\* A process that has imported the module calls
\* train_single(save_partitions=...) up to MaxCalls times, going on after an
\* exception of a call; the configuration and the frame table stay as they are.
InitCalls ==
    /\ cfg \in {c \in Configs : Relevant(c) /\ c.EXPERIMENT_TYPE = "single_train"}
    /\ frame_df \in FrameTables
    /\ pc = "caller"
    /\ entry = NoEntry /\ args = NoArgs /\ histogram = <<>>
    /\ Fresh /\ NoPlot /\ NoDataset /\ NoFramesTable

\* train_single(save_partitions=save_partitions), line 229, with the defaults
\* of save_weights and write_logs.
call_train_single ==
    /\ pc \in {"caller", "raised"}
    /\ Cardinality(Called("train_single")) < MaxCalls
    /\ \E save_partitions \in BOOLEAN :
          args' = [save_weights |-> FALSE, write_logs |-> FALSE,
                   save_partitions |-> save_partitions]
    /\ error' = "none"
    /\ stack' = <<"caller">>
    /\ pc' = "train_single"
    /\ trace' = Append(trace, Ev("train_single", 0))
    /\ UNCHANGED <<cfg, frame_df, vizVars, dataVars, gradVars, entry, partVars, modelVars,
                   searchVars, cvVars>>

NextCalls ==
    \/ call_train_single
    \/ train_single_partition
    \/ train_single_train

SpecCalls == InitCalls /\ [][NextCalls]_vars

\* ---------------------------------------- one saved partition a process (C22)
\* train_single is at its call of partition_dataset with save_dfs = true.
SavingCall == pc = "train_single" /\ args.save_partitions

\* C22: once the partition directory of the process exists, every call of
\* partition_dataset with save_dfs = true ends in FileExistsError at the
\* creation of the directory, and the directory and its six files stay as the
\* first saving call wrote them; so at most one saving call of a process
\* succeeds.
C22_OneSavedPartition ==
    /\ [][SavingCall /\ partition_dir.exists =>
            pc' = "raised" /\ error' = "FileExistsError"
               /\ partition_dir' = partition_dir]_vars
    /\ [][partition_dir.exists => partition_dir' = partition_dir]_vars

\* A saving call has failed on the directory an earlier call of the process
\* created, after a call without saving went through in between.
C22_Witness ==
    /\ pc = "raised" /\ error = "FileExistsError"
    /\ partition_dir.exists /\ partition_dir.train_set_frames # EmptyDf
    /\ Cardinality(Called("train_single")) = 3
    /\ Cardinality(Called("partition_dataset")) = 2

\* ----------------------------------- the model artifact of the folds (C23)
\* cross_validation runs with save_weights = true and has finished the
\* iteration of at least one fold.
FoldsSaved ==
    /\ entry.experiment = "cross_validation" /\ args.save_weights
    /\ pc \in {"cv_fold", "raised", "done"}
    /\ cur_fold >= 1

\* The models some artifact under MODEL_WEIGHTS holds.
Stored == {model_file[p] : p \in DOMAIN model_file}

\* C23: in cross_validation with save_weights = true every fold saves its
\* model, and after any number of folds exactly one model artifact exists and
\* holds the model of the last fold finished; the artifacts of the folds
\* before it are gone, overwritten at the one path all folds write to.
C23_LastFoldArtifact ==
    FoldsSaved =>
        /\ \A m \in 1..cur_fold : Saved(m)
        /\ Cardinality(DOMAIN model_file) = 1
        /\ Stored = {cur_fold}

\* A cross-validation of three folds has returned: three models were saved
\* and the one artifact there is holds the third.
C23_Witness ==
    /\ FoldsSaved /\ pc = "done"
    /\ cfg.N_FOLDS = 3 /\ cur_fold = 3
    /\ Saved(1) /\ Saved(2) /\ Saved(3)
    /\ Stored = {3}

====
